---- MODULE Spec2Model ----
(***************************************************************************)
(* Model of basic_agent: the Agent.run loop (agent.py), the provider       *)
(* retry wrapper _retryable_chat (provider.py), the tool registry          *)
(* (tools.py), structured-output parsing (models.py) and the memory        *)
(* collaborator as the loop uses it (memory.py).                           *)
(*                                                                         *)
(* One run of one Agent is modelled as a sequential process whose position *)
(* is pc.  The suspension points of the code are the steps of the model:   *)
(* one attempt of a provider call, the handling of a response, one         *)
(* iteration of the tool-call loop, the end of a round.                    *)
(***************************************************************************)
EXTENDS Integers, Sequences, FiniteSets, TLC

\* ---- bounds of the exploration ----
MaxIterations == 2      \* largest max_iterations an Agent is built with
MaxToolCalls == 2       \* most tool-call requests the provider makes during one run
MaxMemToolCalls == 2    \* most tool-call requests in a memory-update response
MaxInterleavedToolCalls == 1  \* most tool-call requests made to each of two interleaved runs
MaxConnections == 2     \* most connections one Memory instance opens

None == "None"

\* ---- values the environment supplies ----
OutputTypeName == "SentimentResult"     \* output_type.__name__
MemorySchemaName == "UserContext"       \* memory._schema.__name__
RegistrySchemas == <<"add_numbers">>    \* ToolRegistry.schemas(), by name
RegisteredTools == {RegistrySchemas[i] : i \in 1..Len(RegistrySchemas)}
UnknownToolName == "nonexistent_tool"
\* the text and the usage a response carries: without text, with text
Payloads == {[text |-> None, usage |-> [input_tokens |-> 10, output_tokens |-> 5]],
             [text |-> "txt", usage |-> [input_tokens |-> 20, output_tokens |-> 15]]}
StatusCodes == {400, 404, 429, 500, 502, 503, 504}

\* provider.py:44
_RETRYABLE_STATUS_CODES == {429, 500, 502, 503, 504}

\* provider.py:47  (max_retries default; no caller overrides it)
max_retries == 3

\* ---- exceptions ----
APIConnectionError == [type |-> "APIConnectionError", status_code |-> 0]
APIStatusError(code) == [type |-> "APIStatusError", status_code |-> code]
OtherError == [type |-> "JSONDecodeError", status_code |-> 0]
ValidationError == [type |-> "ValidationError", status_code |-> 0]
ValueError == [type |-> "ValueError", status_code |-> 0]
NoError == [type |-> None, status_code |-> 0]

ProviderErrors == {APIConnectionError, OtherError} \cup {APIStatusError(c) : c \in StatusCodes}

\* ---- sequences helpers ----
SeqsUpTo(S, n) == UNION {[1..k -> S] : k \in 0..n}

RECURSIVE Pow2(_)
Pow2(n) == IF n = 0 THEN 1 ELSE 2 * Pow2(n - 1)

\* ---- provider responses (ProviderResponse, ToolCall, Usage) ----
ToolCallShapes(output_model) ==
    {[name |-> n, input |-> "ok"] : n \in RegisteredTools \cup {UnknownToolName}}
    \cup {[name |-> n, input |-> "bad"] : n \in RegisteredTools}
    \cup (IF output_model = None THEN {}
          ELSE {[name |-> output_model, input |-> i] : i \in {"ok", "bad"}})

\* tool-call ids are unique within a response
WithIds(shapes, round) ==
    [i \in 1..Len(shapes) |->
        [id |-> <<round, i>>, name |-> shapes[i].name, input |-> shapes[i].input]]

\* the responses of round `round`, the provider having `left` requests left
Responses(output_model, round, left) ==
    {[text |-> p.text, tool_calls |-> WithIds(s, round), usage |-> p.usage] :
        p \in Payloads, s \in SeqsUpTo(ToolCallShapes(output_model), left)}

MemToolCallShapes ==
    {[name |-> MemorySchemaName, input |-> "ok"],
     [name |-> MemorySchemaName, input |-> "bad"],
     [name |-> UnknownToolName, input |-> "ok"]}

MemResponses ==
    {[text |-> p.text, tool_calls |-> WithIds(s, 0), usage |-> p.usage] :
        p \in {q \in Payloads : q.text = None}, s \in SeqsUpTo(MemToolCallShapes, MaxMemToolCalls)}

NoResponse == [text |-> None, tool_calls |-> <<>>, usage |-> [input_tokens |-> 0, output_tokens |-> 0]]

\* ---- models.py ----
\* parse_structured_output: model.model_validate(data) returns the validated
\* instance or raises ValidationError
ValidInputs == {"ok"}
\* (variant: the data is taken without validation)
IsValidLenient(data) == TRUE
IsValid(data) == data \in ValidInputs
parse_structured_output(model, data) == [kind |-> "record", model |-> model, value |-> data]

\* ---- tools.py ----
\* (variant: a definition is found under every name)
ToolRegistry_getAny(name) == name
ToolRegistry_get(name) == IF name \in RegisteredTools THEN name ELSE None

\* ToolDefinition.execute: self.func(**kwargs); raises when the arguments do
\* not fit the function
ToolDefinition_execute(name, input) ==
    IF input = "ok" THEN [raised |-> FALSE, value |-> <<"result", name, input>>]
    ELSE [raised |-> TRUE, value |-> <<"TypeError", name>>]


\* ---- provider.py: _retryable_chat ----
\* what one call of call_fn() can do
AttemptOutcomes(resps) ==
    {[raised |-> FALSE, exc |-> NoError, response |-> r] : r \in resps}
    \cup {[raised |-> TRUE, exc |-> e, response |-> NoResponse] : e \in ProviderErrors}

\* (variant: every status error is retried, the status code is not looked at)
IsRetryableAnyStatus(exc) == exc.type \in {"APIConnectionError", "APIStatusError"}

\* the two except clauses: the exception is caught and kept in last_exc
IsRetryable(exc) ==
    \/ exc.type = "APIConnectionError"
    \/ exc.type = "APIStatusError" /\ exc.status_code \in _RETRYABLE_STATUS_CODES

\* (variant: the first exception is kept)
UpdateLastExcKeepFirst(last, exc) == IF last = NoError THEN exc ELSE last

\* last_exc = exc
UpdateLastExc(last, exc) == exc

\* (variant: 2 * attempt for 2 ** attempt)
BackoffDelayLinear(k) == 2 * k

\* time.sleep(2**attempt), attempt being the 0-based index of the failed attempt
BackoffDelay(k) == Pow2(k)

\* if attempt < max_retries - 1
SleepsAfter(k) == k < max_retries - 1

\* one iteration of `for attempt in range(max_retries)`, k the 0-based attempt:
\*   "return" the response, "raise" at once, go on to the next attempt
\*   ("retry"), or fall out of the loop and raise last_exc ("exhausted")
_retryable_chat(k, outcome, last) ==
    IF ~outcome.raised
    THEN [ctl |-> "return", last_exc |-> last, exc |-> NoError, slept |-> <<>>]
    ELSE IF ~IsRetryable(outcome.exc)
    THEN [ctl |-> "raise", last_exc |-> last, exc |-> outcome.exc, slept |-> <<>>]
    ELSE LET l == UpdateLastExc(last, outcome.exc)
             s == IF SleepsAfter(k) THEN <<BackoffDelay(k)>> ELSE <<>>
         IN IF k + 1 < max_retries
            THEN [ctl |-> "retry", last_exc |-> l, exc |-> NoError, slept |-> s]
            ELSE [ctl |-> "exhausted", last_exc |-> l, exc |-> l, slept |-> s]

\* ---- memory.py, as seen through one Memory instance ----
MemoryIds == {"u1"}
Memory_get(st, id) == st[id]
Memory_put(st, id, data) == [st EXCEPT ![id] = data]

\* ---- agent.py helpers ----
\* (variant: an absent text is passed on as it is)
OrEmptyKeep(text) == text

\* response.text or ""
OrEmpty(text) == IF text = None THEN "" ELSE text

\* (variant: the loaded record is not put into the prompt)
_render_system_promptPlain(memory_data) == <<"template">>

\* _render_system_prompt: the rendered template, prefixed by the memory block
\* when a record was loaded
_render_system_prompt(memory_data) ==
    IF memory_data # None
    THEN <<"<memory>", memory_data, "</memory>", "template">>
    ELSE <<"template">>

\* (variant: the tool_use blocks are left out)
_build_assistant_contentTextOnly(provider, resp) ==
    [list |-> IF resp.text # None THEN <<[type |-> "text", text |-> resp.text]>> ELSE <<>>]

\* _build_assistant_content
_build_assistant_content(provider, resp) ==
    IF provider = "anthropic"
    THEN [list |->
            (IF resp.text # None THEN <<[type |-> "text", text |-> resp.text]>> ELSE <<>>)
            \o [i \in 1..Len(resp.tool_calls) |->
                  [type |-> "tool_use", id |-> resp.tool_calls[i].id,
                   name |-> resp.tool_calls[i].name, input |-> resp.tool_calls[i].input]]]
    ELSE [raw |-> [content |-> resp.text, tool_calls |-> resp.tool_calls]]

\* _build_tool_result
_build_tool_result(provider, tool_call_id, name, result_str) ==
    IF provider = "anthropic"
    THEN [type |-> "tool_result", tool_use_id |-> tool_call_id, content |-> result_str]
    ELSE [role |-> "tool", tool_call_id |-> tool_call_id, content |-> result_str]

\* the id a tool-result block echoes, whatever the provider format
ResultId(block) ==
    IF "tool_use_id" \in DOMAIN block THEN block.tool_use_id ELSE block.tool_call_id

\* (variant: results are collected newest first)
PrependResult(results, block) == <<block>> \o results

\* (variant: the result is not collected)
DropResult(results, block) == results

\* (variant: the tool results are filed as a message of the assistant)
ToolResultsMessageAsAssistant(results) == [role |-> "assistant", content |-> [list |-> results]]

\* the message the tool results of a round are handed back in (agent.py:200)
ToolResultsMessage(results) == [role |-> "user", content |-> [list |-> results]]

\* tool_results_content.append(...)
AppendResult(results, block) == Append(results, block)

\* the text a tool-call request is answered with (lines 183-193)
UnknownToolText(name) == <<"Error: Unknown tool", name>>
\* (variant: the tool name is left out of the text)
ExecErrorTextNoName(name, e) == <<"Error executing tool", e>>
ExecErrorText(name, e) == <<"Error executing tool", name, e>>


\* ---- state ----
VARIABLES
    self,                  \* the Agent's fields set by __init__
    args,                  \* the arguments of run
    store,                 \* the records the Memory instance holds
    pc,                    \* position of run
    messages,              \* the conversation
    response,              \* the last ProviderResponse
    tool_choice,
    total_input_tokens,
    total_output_tokens,
    iteration,             \* iterations of the main loop begun
    idx,                   \* position of the tool-call loop in response.tool_calls
    tool_results_content,
    current_memory,
    rendered_system,
    pending,               \* the value run is about to return
    assistant_response,    \* 4th argument of _update_memory
    result,                \* the value run returned
    error,                 \* the exception run raised
    attempt,               \* attempts made by the current _retryable_chat
    last_exc,
    sleeps,                \* time.sleep durations of the current _retryable_chat
    observed,              \* the exception of the latest attempt
    executed,              \* ids of the tool calls executed, in order
    chat_call_count,       \* provider.chat invocations of the main loop
    mem_call_count,        \* provider.chat invocations of _update_memory
    put_log,               \* Memory.put calls, in order
    call_args,             \* arguments of the latest provider.chat invocation
    requested,             \* tool-call requests the provider has made in this run
    response_log,          \* the responses the main loop was given, in order
    mem_response,          \* the response _update_memory was given
    in_flight,             \* ids of the tool calls whose execution has begun and not ended
    invocations,           \* the locals of the run invocations observed side by side
    memory_table,          \* the rows of the memory table, oldest first
    memories,              \* the fields of the Memory instances over that table
    returned,              \* what the last Memory operation gave back
    provider_request,      \* the arguments of the provider construction under way
    provider_made          \* what that construction gave back

vars == <<self, args, store, pc, messages, response, tool_choice,
          total_input_tokens, total_output_tokens, iteration, idx,
          tool_results_content, current_memory, rendered_system, pending,
          assistant_response, result, error, attempt, last_exc, sleeps,
          observed, executed, chat_call_count, mem_call_count, put_log,
          call_args, requested, response_log, mem_response, in_flight, invocations,
          memory_table, memories, returned, provider_request, provider_made>>

\* the variables of the Memory instances observed on their own
memory_vars == <<memory_table, memories, returned>>
\* the variables of the provider factory observed on its own
provider_vars == <<provider_request, provider_made>>
\* no Memory instance is under observation
MemoryIdle == memory_table = <<>> /\ memories = <<>> /\ returned = <<>>
\* no provider construction is under observation
ProviderIdle == provider_request = <<>> /\ provider_made = <<>>

NoResult == [kind |-> "none", model |-> None, value |-> ""]
TextResult(t) == [kind |-> "text", model |-> None, value |-> t]
NoArgs == [messages |-> <<>>, tools |-> None, tool_choice |-> None, system |-> <<>>,
           max_tokens |-> 0, temperature |-> None]

\* Agent.__init__ and the arguments of run
Agents ==
    {[_max_iterations |-> n, _output_model |-> o, _memory |-> m, provider_name |-> "anthropic",
      _max_tokens |-> 4096, _temperature |-> None] :
        n \in 1..MaxIterations, o \in {None, OutputTypeName}, m \in BOOLEAN}
    \cup
    {[_max_iterations |-> n, _output_model |-> None, _memory |-> FALSE, provider_name |-> "openai",
      _max_tokens |-> 4096, _temperature |-> None] :
        n \in 1..MaxIterations}

RunArgs ==
    {[message |-> "hello", memory_id |-> i, memory_update |-> u] :
        i \in {None} \cup MemoryIds, u \in BOOLEAN}

Init ==
    /\ self \in Agents
    /\ args \in {a \in RunArgs : a.memory_id = None => a.memory_update}
    /\ store \in {s \in [MemoryIds -> {None, "alice"}] :
                     (~self._memory \/ args.memory_id = None) => \A i \in MemoryIds : s[i] = None}
    /\ pc = "init"
    /\ messages = <<>>
    /\ response = NoResponse
    /\ tool_choice = None
    /\ total_input_tokens = 0
    /\ total_output_tokens = 0
    /\ iteration = 0
    /\ idx = 0
    /\ tool_results_content = <<>>
    /\ current_memory = None
    /\ rendered_system = <<>>
    /\ pending = NoResult
    /\ assistant_response = ""
    /\ result = NoResult
    /\ error = NoError
    /\ attempt = 0
    /\ last_exc = NoError
    /\ sleeps = <<>>
    /\ observed = NoError
    /\ executed = <<>>
    /\ chat_call_count = 0
    /\ mem_call_count = 0
    /\ put_log = <<>>
    /\ call_args = NoArgs
    /\ requested = 0
    /\ response_log = <<>>
    /\ mem_response = NoResponse
    /\ in_flight = {}
    /\ invocations = <<>>
    /\ MemoryIdle
    /\ ProviderIdle

\* (variant: the output schema is appended anew in every iteration)
tool_schemasGrowing ==
    RegistrySchemas
    \o (IF self._output_model # None
        THEN [k \in 1..(iteration + 1) |-> self._output_model] ELSE <<>>)

\* tool_schemas (lines 126-131), by name
tool_schemas ==
    RegistrySchemas \o (IF self._output_model # None THEN <<self._output_model>> ELSE <<>>)

\* (variant: the memory_update flag is not looked at)
WantsMemoryUpdateIgnoringFlag == args.memory_id # None /\ self._memory

\* memory_id is not None and memory_update and self._memory is not None
WantsMemoryUpdate == args.memory_id # None /\ args.memory_update /\ self._memory

\* (variant: the value is returned without the memory update)
FinishWithoutUpdate(value, assistant_text) ==
    /\ pc' = "returned"
    /\ result' = value
    /\ UNCHANGED <<pending, assistant_response>>

\* `return value`, after the memory update when one is due (lines 160-163,
\* 177-180, 209-211): control goes to _update_memory or run returns
Finish(value, assistant_text) ==
    IF WantsMemoryUpdate
    THEN /\ pc' = "mem_chat"
         /\ pending' = value
         /\ assistant_response' = assistant_text
         /\ result' = result
    ELSE /\ pc' = "returned"
         /\ result' = value
         /\ UNCHANGED <<pending, assistant_response>>

\* (variant: the check of the configuration is left out)
MemoryMisconfiguredNever(memory_id, has_memory) == FALSE

\* memory_id is not None and self._memory is None (lines 107-108)
MemoryMisconfigured(memory_id, has_memory) == memory_id # None /\ ~has_memory

\* run, lines 105-138: load memory, render the prompt, set up the loop
RunStart ==
    /\ pc = "init"
    /\ IF MemoryMisconfigured(args.memory_id, self._memory)
       THEN /\ pc' = "raised"
            /\ error' = ValueError
            /\ UNCHANGED <<current_memory, rendered_system, tool_choice, messages>>
       ELSE /\ current_memory' = IF args.memory_id # None
                                 THEN Memory_get(store, args.memory_id) ELSE None
            /\ rendered_system' = _render_system_prompt(current_memory')
            /\ tool_choice' = IF self._output_model # None THEN self._output_model ELSE None
            /\ messages' = <<[role |-> "user", content |-> [str |-> args.message]]>>
            /\ pc' = "chat"
            /\ error' = error
    /\ UNCHANGED <<self, args, store, response, total_input_tokens, total_output_tokens,
                   iteration, idx, tool_results_content, pending, assistant_response,
                   result, attempt, last_exc, sleeps, observed, executed,
                   chat_call_count, mem_call_count, put_log, call_args, requested, response_log, mem_response, in_flight, invocations, memory_vars, provider_vars>>

\* (variant: one iteration too many)
LoopContinuesInclusive(done, limit) == done <= limit

\* for _ in range(self._max_iterations): another iteration is begun
LoopContinues(done, limit) == done < limit

\* one attempt of the provider call of the main loop (lines 141-148, through
\* provider.chat and _retryable_chat)
ChatAttempt ==
    /\ pc \in {"chat", "retry"}
    /\ LET first == pc = "chat"
           k == IF first THEN 0 ELSE attempt
           last == IF first THEN NoError ELSE last_exc
       IN \E outcome \in AttemptOutcomes(Responses(self._output_model,
                                                  IF first THEN iteration + 1 ELSE iteration,
                                                  MaxToolCalls - requested)) :
            LET r == _retryable_chat(k, outcome, last) IN
            /\ attempt' = k + 1
            /\ observed' = outcome.exc
            /\ last_exc' = IF r.ctl \in {"retry", "exhausted"} THEN r.last_exc ELSE NoError
            /\ sleeps' = (IF first THEN <<>> ELSE sleeps) \o r.slept
            /\ iteration' = IF first THEN iteration + 1 ELSE iteration
            /\ chat_call_count' = IF first THEN chat_call_count + 1 ELSE chat_call_count
            /\ call_args' = IF first
                            THEN [messages |-> messages,
                                  tools |-> IF tool_schemas # <<>> THEN tool_schemas ELSE None,
                                  tool_choice |-> IF tool_schemas # <<>> THEN tool_choice ELSE None,
                                  system |-> rendered_system,
                                  max_tokens |-> self._max_tokens,
                                  temperature |-> self._temperature]
                            ELSE call_args
            /\ requested' = requested + Len(outcome.response.tool_calls)
            /\ response_log' = IF r.ctl = "return"
                               THEN Append(response_log, outcome.response) ELSE response_log
            /\ CASE r.ctl = "return" ->
                      /\ pc' = "response"
                      /\ response' = outcome.response
                      /\ error' = error
                 [] r.ctl = "retry" ->
                      /\ pc' = "retry"
                      /\ UNCHANGED <<response, error>>
                 [] OTHER ->
                      /\ pc' = "raised"
                      /\ error' = r.exc
                      /\ response' = response
    /\ UNCHANGED <<self, args, store, messages, tool_choice, total_input_tokens,
                   total_output_tokens, idx, tool_results_content, current_memory,
                   rendered_system, pending, assistant_response, result, executed,
                   mem_call_count, put_log, mem_response, in_flight, invocations, memory_vars, provider_vars>>

\* (variant: `=` for `+=`)
AccumulateOverwrite(total, tokens) == tokens

\* total_input_tokens += ..., total_output_tokens += ...
Accumulate(total, tokens) == total + tokens

\* lines 150-170: the response of the round is taken in
HandleResponse ==
    /\ pc = "response"
    /\ total_input_tokens' = Accumulate(total_input_tokens, response.usage.input_tokens)
    /\ total_output_tokens' = Accumulate(total_output_tokens, response.usage.output_tokens)
    /\ attempt' = 0
    /\ sleeps' = <<>>
    /\ last_exc' = NoError
    /\ IF response.tool_calls = <<>>
       THEN /\ Finish(TextResult(OrEmpty(response.text)), OrEmpty(response.text))
            /\ UNCHANGED <<messages, tool_results_content, idx>>
       ELSE /\ messages' = Append(messages,
                  [role |-> "assistant",
                   content |-> _build_assistant_content(self.provider_name, response)])
            /\ tool_results_content' = <<>>
            /\ idx' = 1
            /\ pc' = "tools"
            /\ UNCHANGED <<pending, assistant_response, result>>
    /\ UNCHANGED <<self, args, store, response, tool_choice, iteration, current_memory,
                   rendered_system, error, observed, executed, chat_call_count,
                   mem_call_count, put_log, call_args, requested, response_log, mem_response, in_flight, invocations, memory_vars, provider_vars>>

\* tool_def.execute(**tc.input) is entered (lines 183-189): the tool function
\* of a registered tool starts to run
ToolStart ==
    /\ pc = "tools"
    /\ idx <= Len(response.tool_calls)
    /\ in_flight = {}
    /\ LET tc == response.tool_calls[idx] IN
       /\ ~(self._output_model # None /\ tc.name = self._output_model)
       /\ ToolRegistry_get(tc.name) # None
       /\ in_flight' = {tc.id}
       /\ executed' = Append(executed, tc.id)
    /\ UNCHANGED <<self, args, store, pc, messages, response, tool_choice, total_input_tokens,
                   total_output_tokens, iteration, idx, tool_results_content, current_memory,
                   rendered_system, pending, assistant_response, result, error,
                   attempt, last_exc, sleeps, observed, chat_call_count, mem_call_count,
                   put_log, call_args, requested, response_log, mem_response, invocations, memory_vars, provider_vars>>

\* one iteration of `for tc in response.tool_calls` (lines 172-197), to its
\* end: the output-schema call ends run; an unknown tool is answered at once;
\* the execution of a registered tool ends and its result is collected
ToolStep ==
    /\ pc = "tools"
    /\ idx <= Len(response.tool_calls)
    /\ LET tc == response.tool_calls[idx] IN
       IF self._output_model # None /\ tc.name = self._output_model
       THEN /\ IF IsValid(tc.input)
               THEN /\ Finish(parse_structured_output(self._output_model, tc.input), tc.input)
                    /\ error' = error
               ELSE /\ pc' = "raised"
                    /\ error' = ValidationError
                    /\ UNCHANGED <<pending, assistant_response, result>>
            /\ UNCHANGED <<idx, tool_results_content, in_flight>>
       ELSE LET tool_def == ToolRegistry_get(tc.name)
                run_ == ToolDefinition_execute(tc.name, tc.input)
                result_str == IF tool_def = None THEN UnknownToolText(tc.name)
                              ELSE IF run_.raised THEN ExecErrorText(tc.name, run_.value[1])
                              ELSE run_.value
            IN /\ tool_def # None => in_flight = {tc.id}
               /\ in_flight' = {}
               /\ tool_results_content' = AppendResult(tool_results_content,
                      _build_tool_result(self.provider_name, tc.id, tc.name, result_str))
               /\ idx' = idx + 1
               /\ UNCHANGED <<pc, pending, assistant_response, result, error>>
    /\ UNCHANGED <<self, args, store, messages, response, tool_choice, total_input_tokens,
                   total_output_tokens, iteration, current_memory, rendered_system,
                   attempt, last_exc, sleeps, observed, executed, chat_call_count, mem_call_count,
                   put_log, call_args, requested, response_log, mem_response, invocations, memory_vars, provider_vars>>

\* (variant: the forced tool stays forced)
NextToolChoiceKeep(choice) == choice

\* if tool_choice and tool_choice != "auto": tool_choice = "auto" (lines 203-204)
NextToolChoice(choice) == IF choice # None /\ choice # "auto" THEN "auto" ELSE choice

\* lines 199-211: the round's results join the conversation; the loop goes on
\* or, the budget exhausted, run ends with the last text
EndRound ==
    /\ pc = "tools"
    /\ idx > Len(response.tool_calls)
    /\ messages' = Append(messages, ToolResultsMessage(tool_results_content))
    /\ tool_choice' = NextToolChoice(tool_choice)
    /\ IF LoopContinues(iteration, self._max_iterations)
       THEN /\ pc' = "chat"
            /\ UNCHANGED <<pending, assistant_response, result>>
       ELSE Finish(TextResult(OrEmpty(response.text)), OrEmpty(response.text))
    /\ UNCHANGED <<self, args, store, response, total_input_tokens, total_output_tokens,
                   iteration, idx, tool_results_content, current_memory, rendered_system,
                   error, attempt, last_exc, sleeps, observed, executed, chat_call_count,
                   mem_call_count, put_log, call_args, requested, response_log, mem_response, in_flight, invocations, memory_vars, provider_vars>>

\* (variant: the whole conversation is carried over)
update_messagesUnfiltered ==
    messages
    \o (IF assistant_response # ""
        THEN <<[role |-> "assistant", content |-> [str |-> assistant_response]]>> ELSE <<>>)
    \o <<[role |-> "user", content |-> [str |-> "Please update the memory based on this conversation."]]>>

\* _update_memory, lines 274-287: the condensed conversation
update_messages ==
    SelectSeq(messages, LAMBDA m : "str" \in DOMAIN m.content)
    \o (IF assistant_response # ""
        THEN <<[role |-> "assistant", content |-> [str |-> assistant_response]]>> ELSE <<>>)
    \o <<[role |-> "user", content |-> [str |-> "Please update the memory based on this conversation."]]>>

\* _update_memory, lines 259-269: the prompt embeds the record loaded at the start
memory_system_prompt ==
    <<"memory_prompt", IF current_memory # None THEN current_memory ELSE "{}", MemorySchemaName>>

\* (variant: the first tool call is taken, whatever its name)
FirstCallAnyName(tool_calls) == IF tool_calls # <<>> THEN 1 ELSE 0

\* the first tool call named after the memory schema, 0 if there is none (lines 299-301)
FirstMatch(tool_calls) ==
    IF \E i \in 1..Len(tool_calls) : tool_calls[i].name = MemorySchemaName
    THEN CHOOSE i \in 1..Len(tool_calls) :
            /\ tool_calls[i].name = MemorySchemaName
            /\ \A j \in 1..(i - 1) : tool_calls[j].name # MemorySchemaName
    ELSE 0

\* one attempt of the provider call of _update_memory (lines 289-296) and, when
\* it returns, the rest of _update_memory and the return of run (lines 298-304)
MemChatAttempt ==
    /\ pc \in {"mem_chat", "mem_retry"}
    /\ LET first == pc = "mem_chat"
           k == IF first THEN 0 ELSE attempt
           last == IF first THEN NoError ELSE last_exc
       IN \E outcome \in AttemptOutcomes(MemResponses) :
            LET r == _retryable_chat(k, outcome, last)
                m == FirstMatch(outcome.response.tool_calls)
            IN
            /\ attempt' = k + 1
            /\ observed' = outcome.exc
            /\ last_exc' = IF r.ctl \in {"retry", "exhausted"} THEN r.last_exc ELSE NoError
            /\ sleeps' = (IF first THEN <<>> ELSE sleeps) \o r.slept
            /\ mem_call_count' = IF first THEN mem_call_count + 1 ELSE mem_call_count
            /\ call_args' = IF first
                            THEN [messages |-> update_messages,
                                  tools |-> <<MemorySchemaName>>,
                                  tool_choice |-> MemorySchemaName,
                                  system |-> memory_system_prompt,
                                  max_tokens |-> self._max_tokens,
                                  temperature |-> "0"]
                            ELSE call_args
            /\ mem_response' = IF r.ctl = "return" THEN outcome.response ELSE mem_response
            /\ CASE r.ctl = "return" /\ m = 0 ->
                      /\ pc' = "returned"
                      /\ result' = pending
                      /\ UNCHANGED <<store, put_log, error>>
                 [] r.ctl = "return" /\ m # 0 /\ IsValid(outcome.response.tool_calls[m].input) ->
                      /\ store' = Memory_put(store, args.memory_id, outcome.response.tool_calls[m].input)
                      /\ put_log' = Append(put_log, [id |-> args.memory_id,
                                                     data |-> outcome.response.tool_calls[m].input])
                      /\ pc' = "returned"
                      /\ result' = pending
                      /\ error' = error
                 [] r.ctl = "return" /\ m # 0 /\ ~IsValid(outcome.response.tool_calls[m].input) ->
                      /\ pc' = "raised"
                      /\ error' = ValidationError
                      /\ UNCHANGED <<store, put_log, result>>
                 [] r.ctl = "retry" ->
                      /\ pc' = "mem_retry"
                      /\ UNCHANGED <<store, put_log, result, error>>
                 [] OTHER ->
                      /\ pc' = "raised"
                      /\ error' = r.exc
                      /\ UNCHANGED <<store, put_log, result>>
    /\ UNCHANGED <<self, args, messages, response, tool_choice, total_input_tokens,
                   total_output_tokens, iteration, idx, tool_results_content,
                   current_memory, rendered_system, pending, assistant_response,
                   executed, chat_call_count, requested, response_log, in_flight, invocations, memory_vars, provider_vars>>

Next ==
    \/ RunStart
    \/ ChatAttempt
    \/ HandleResponse
    \/ ToolStart
    \/ ToolStep
    \/ EndRound
    \/ MemChatAttempt

Spec == Init /\ [][Next]_vars


(***************************************************************************)
(* Properties                                                              *)
(***************************************************************************)

\* ---- vocabulary of the properties ----
\* run raised inside the main loop: after the first provider call was issued
\* and before _update_memory was entered
MainRaise == pc = "raised" /\ chat_call_count >= 1 /\ mem_call_count = 0

\* the main loop has ended with a value to return
MainLoopDone ==
    \/ pc \in {"mem_chat", "mem_retry", "returned"}
    \/ pc = "raised" /\ mem_call_count >= 1

\* that value
MainOutcome == IF WantsMemoryUpdate THEN pending ELSE result

OutputConfigured == self._output_model # None
IsOutputCall(tc) == OutputConfigured /\ tc.name = self._output_model
IsPlainRound(resp) ==
    /\ resp.tool_calls # <<>>
    /\ \A i \in 1..Len(resp.tool_calls) : ~IsOutputCall(resp.tool_calls[i])
AllRoundsPlain == \A k \in 1..Len(response_log) : IsPlainRound(response_log[k])

\* what the code answers a request of a round with
OutcomeText(req) ==
    IF req.name \notin RegisteredTools THEN <<"Error: Unknown tool", req.name>>
    ELSE IF req.input \in ValidInputs THEN <<"result", req.name, req.input>>
    ELSE <<"Error executing tool", req.name, "TypeError">>

IsToolResultMessage(m) == m.role = "user" /\ "list" \in DOMAIN m.content
ToolResultMessages(msgs) == SelectSeq(msgs, IsToolResultMessage)

\* the outcomes answer the requests one for one, in the order of the requests
Answers(outcomes, requests) ==
    /\ Len(outcomes) = Len(requests)
    /\ \A i \in 1..Len(requests) :
          /\ ResultId(outcomes[i]) = requests[i].id
          /\ outcomes[i].content = OutcomeText(requests[i])

RetryableErrors ==
    {APIConnectionError} \cup {APIStatusError(c) : c \in {429, 500, 502, 503, 504}}

\* the wrapper gave up: it raised an error of the retryable kind
Exhausted == pc = "raised" /\ error \in RetryableErrors

RECURSIVE SumInput(_, _)
SumInput(log, n) == IF n = 0 THEN 0 ELSE SumInput(log, n - 1) + log[n].usage.input_tokens
RECURSIVE SumOutput(_, _)
SumOutput(log, n) == IF n = 0 THEN 0 ELSE SumOutput(log, n - 1) + log[n].usage.output_tokens

\* ---- C1 ----
\* C1 as stated: the main loop issues at most max_iterations provider.chat
\* calls and never raises, whatever the provider does.
C1_AsStated ==
    /\ chat_call_count <= self._max_iterations
    /\ ~MainRaise

\* C1, amended: the main loop issues at most max_iterations provider.chat
\* calls; it ends with a value to return unless a provider call raises (a
\* non-retryable error, or retries exhausted) or an output-schema tool call
\* fails validation; when every response carries tool calls and none names
\* the output schema, exactly max_iterations calls are issued and the loop
\* ends with a text result.
C1_Termination ==
    /\ chat_call_count <= self._max_iterations
    /\ iteration = chat_call_count
    /\ MainRaise =>
          \/ error = observed /\ observed \in ProviderErrors
          \/ /\ error = ValidationError
             /\ pc = "raised" /\ idx \in 1..Len(response.tool_calls)
             /\ IsOutputCall(response.tool_calls[idx])
             /\ response.tool_calls[idx].input \notin ValidInputs
    /\ MainLoopDone => MainOutcome.kind \in {"text", "record"}
    /\ (MainLoopDone /\ AllRoundsPlain) =>
          /\ chat_call_count = self._max_iterations
          /\ Len(response_log) = self._max_iterations
          /\ MainOutcome = TextResult(OrEmpty(response.text))

C1_Witness ==
    /\ pc = "returned"
    /\ self._max_iterations >= 2
    /\ chat_call_count = self._max_iterations
    /\ AllRoundsPlain
    /\ result.kind = "text"

\* ---- C2 ----
\* C2: with an output schema configured every value run returns is a record
\* validated against the schema; without one every returned value is text.
C2_OutputShape ==
    pc = "returned" =>
        IF OutputConfigured
        THEN result.kind = "record" /\ result.value \in ValidInputs
        ELSE result.kind = "text"

\* ---- C3 ----
HasValidOutputCall(resp) ==
    \E i \in 1..Len(resp.tool_calls) :
        IsOutputCall(resp.tool_calls[i]) /\ resp.tool_calls[i].input \in ValidInputs

\* C3: in a round whose response holds a valid output-schema call, run
\* returns a record validated from such a call and no other tool call of that
\* round is executed, whatever the position of the output-schema call.
C3_OthersNotExecuted ==
    \A k \in 1..Len(response_log) :
        HasValidOutputCall(response_log[k]) =>
            /\ \A i \in 1..Len(response_log[k].tool_calls), e \in 1..Len(executed) :
                  executed[e] # response_log[k].tool_calls[i].id
            /\ MainLoopDone => MainOutcome.kind = "record"

\* ---- C4 ----
\* C4: the tool-result message of a round holds one outcome per request of
\* the round, the i-th carrying the id and the result or error text of the
\* i-th request, and it is the last message of the conversation handed to
\* the next provider call.
C4_OutcomesInRequestOrder ==
    /\ \A j \in 1..Len(ToolResultMessages(messages)) :
          /\ j <= Len(response_log)
          /\ Answers(ToolResultMessages(messages)[j].content.list, response_log[j].tool_calls)
    /\ (pc \in {"retry", "response"} /\ iteration >= 2) =>
          /\ call_args.messages = messages
          /\ IsToolResultMessage(messages[Len(messages)])
          /\ Answers(messages[Len(messages)].content.list,
                     response_log[iteration - 1].tool_calls)
    /\ (pc = "tools" /\ idx > Len(response.tool_calls)) =>
          Answers(tool_results_content, response.tool_calls)

C4_Witness ==
    /\ pc = "response"
    /\ iteration = 2
    /\ Len(response_log[1].tool_calls) = 2
    /\ response_log[1].tool_calls[1].name # response_log[1].tool_calls[2].name
    /\ Len(call_args.messages[Len(call_args.messages)].content.list) = 2


\* ---- C5 ----
\* C5: when every attempt of one provider call fails with a retryable error,
\* the wrapper stops after exactly 3 attempts and raises the error of the
\* last attempt; run raises it, returns nothing, and writes no memory; a
\* call that failed in the main loop is followed by no memory-update call.
C5_RetriesExhausted ==
    /\ attempt <= 3
    /\ pc \in {"retry", "mem_retry"} => attempt < 3
    /\ Exhausted =>
          /\ attempt = 3
          /\ error = observed
          /\ result = NoResult
          /\ put_log = <<>>
          /\ mem_call_count <= 1
          /\ mem_call_count = 0 => pending = NoResult /\ Len(response_log) = chat_call_count - 1

C5_Witness ==
    /\ Exhausted
    /\ error = APIStatusError(503)
    /\ last_exc = APIStatusError(503)
    /\ WantsMemoryUpdate
    /\ chat_call_count = 2
    /\ mem_call_count = 0

\* ---- C6 ----
\* C6: a provider call whose first attempts fail with retryable errors and a
\* later attempt succeeds makes exactly (failures + 1) attempts, surfaces no
\* error, and counts as one call of the loop: one response, its usage added
\* once, one iteration.
C6_RetryThenSucceed ==
    /\ pc = "response" =>
          /\ attempt \in 1..3
          /\ Len(sleeps) = attempt - 1
          /\ error = NoError
          /\ Len(response_log) = chat_call_count
          /\ iteration = chat_call_count
          /\ response = response_log[Len(response_log)]
          /\ total_input_tokens = SumInput(response_log, Len(response_log) - 1)
          /\ total_output_tokens = SumOutput(response_log, Len(response_log) - 1)
    /\ pc # "response" =>
          /\ total_input_tokens = SumInput(response_log, Len(response_log))
          /\ total_output_tokens = SumOutput(response_log, Len(response_log))
    /\ Len(response_log) <= chat_call_count
    /\ chat_call_count <= Len(response_log) + 1

\* the second call of a run succeeds at its third attempt
C6_Witness ==
    /\ pc = "response"
    /\ attempt = 3
    /\ sleeps = <<1, 2>>
    /\ chat_call_count = 2
    /\ Len(response_log) = 2
    /\ total_input_tokens = response_log[1].usage.input_tokens

C8_Backoff ==
    /\ \A i \in 1..Len(sleeps) : sleeps[i] = Pow2(i - 1)
    /\ Len(sleeps) <= 2
    /\ pc \in {"retry", "mem_retry"} => Len(sleeps) = attempt
    /\ Exhausted => sleeps = <<1, 2>>

C8_Witness ==
    /\ Exhausted
    /\ attempt = 3
    /\ sleeps = <<1, 2>>

\* ---- C9 ----
\* C9: an output-schema tool call whose arguments fail validation ends run
\* with an error: no text is returned in its place, no further round is
\* run, no memory-update call is made and nothing is written to memory.
C9_InvalidOutputRaises ==
    /\ pc = "tools" => \A j \in 1..(idx - 1) : ~IsOutputCall(response.tool_calls[j])
    /\ \A k \in 1..(Len(response_log) - 1) : IsPlainRound(response_log[k])
    /\ pc \in {"chat", "retry"} => AllRoundsPlain
    /\ (MainRaise /\ error = ValidationError) =>
          /\ IsOutputCall(response.tool_calls[idx])
          /\ response.tool_calls[idx].input \notin ValidInputs
          /\ result = NoResult
          /\ pending = NoResult
          /\ mem_call_count = 0
          /\ put_log = <<>>
          /\ Len(response_log) = chat_call_count
    /\ (MainLoopDone /\ (\E j \in 1..Len(response.tool_calls) : IsOutputCall(response.tool_calls[j]))) =>
          /\ MainOutcome.kind = "record"
          /\ MainOutcome.value \in ValidInputs

C9_Witness ==
    /\ pc = "raised"
    /\ error = ValidationError
    /\ WantsMemoryUpdate
    /\ mem_call_count = 0
    /\ response.text # None
    /\ self._max_iterations > chat_call_count

InSeq(x, seq) == \E e \in 1..Len(seq) : seq[e] = x
RaisesOnExecution(req) == req.name \in RegisteredTools /\ req.input \notin ValidInputs

TextOf(resp) == IF resp.text = None THEN "" ELSE resp.text

BudgetExhausted ==
    /\ Len(response_log) = self._max_iterations
    /\ IsPlainRound(response_log[self._max_iterations])
    /\ pc \notin {"response", "tools"}

C14_ToolChoice ==
    (OutputConfigured /\ mem_call_count = 0) =>
        /\ chat_call_count = 1 => call_args.tool_choice = OutputTypeName
        /\ chat_call_count >= 2 =>
              /\ call_args.tool_choice = "auto"
              /\ response_log[chat_call_count - 1].tool_calls # <<>>
        /\ (pc = "chat" /\ iteration >= 1) => tool_choice = "auto"
        /\ (pc = "chat" /\ iteration = 0) => tool_choice = OutputTypeName

C14_Witness ==
    /\ OutputConfigured
    /\ pc = "response"
    /\ chat_call_count = 2
    /\ call_args.tool_choice = "auto"
    /\ call_args.tools = <<"add_numbers", OutputTypeName>>

\* ---- C15 ----
\* C15: run with a memory id on an Agent without a Memory raises ValueError
\* before any provider call, any tool execution and any memory access.
C15_FailFast ==
    (args.memory_id # None /\ ~self._memory /\ pc # "init") =>
        /\ pc = "raised"
        /\ error = [type |-> "ValueError", status_code |-> 0]
        /\ chat_call_count = 0
        /\ mem_call_count = 0
        /\ call_args = NoArgs
        /\ executed = <<>>
        /\ put_log = <<>>
        /\ current_memory = None
        /\ messages = <<>>

C15_Witness ==
    /\ pc = "raised"
    /\ error.type = "ValueError"
    /\ args.memory_id \in MemoryIds
    /\ ~self._memory
    /\ chat_call_count = 0

\* ---- C16 ----
\* the caller asked for the memory update and the Agent has a Memory
UpdateRequested == args.memory_id # None /\ args.memory_update /\ self._memory

\* C16: when a memory id is supplied, updates are not suppressed and the
\* main loop ends with a value (text, record, or the text of the exhausted
\* budget), exactly one more provider call is issued, after the main loop,
\* with tool choice forced to the memory schema's name: the run makes
\* (main-loop calls + 1) provider calls.
C16_OneUpdateCall ==
    /\ mem_call_count <= 1
    /\ mem_call_count = 1 =>
          /\ UpdateRequested
          /\ pending.kind \in {"text", "record"}
          /\ call_args.tool_choice = "UserContext"
          /\ call_args.tools = <<"UserContext">>
          /\ Len(response_log) = chat_call_count
    /\ UpdateRequested =>
          /\ pc = "mem_chat" => mem_call_count = 0 /\ pending.kind \in {"text", "record"}
          /\ pc = "mem_retry" => mem_call_count = 1
          /\ pc = "returned" => mem_call_count = 1 /\ chat_call_count + mem_call_count = Len(response_log) + 1
          /\ (pc = "raised" /\ mem_call_count = 0) => pending.kind = "none"
          /\ (pc \in {"chat", "retry", "response", "tools"}) => mem_call_count = 0
          /\ (BudgetExhausted \/ (Len(response_log) >= 1 /\ pc # "response"
                                  /\ response_log[Len(response_log)].tool_calls = <<>>))
                => (pc = "mem_chat" \/ mem_call_count = 1)

\* the update call follows a structured output
C16_Witness ==
    /\ pc = "returned"
    /\ UpdateRequested
    /\ result.kind = "record"
    /\ chat_call_count = 2
    /\ mem_call_count = 1
    /\ call_args.tool_choice = MemorySchemaName

\* ---- C17 ----
\* C17: a failure of the memory-update call (the provider call raises, or
\* the returned arguments do not validate) is not fatal: run still returns
\* the value of the main loop.
C17_UpdateFailureNonFatal ==
    mem_call_count >= 1 =>
        /\ pc # "raised"
        /\ error.type = None
        /\ pc = "returned" => result = pending

\* ---- C18 ----
NamesMemorySchema(tc) == tc.name = "UserContext"
UpdateAnswered == mem_call_count = 1 /\ mem_response # NoResponse

\* C18 as stated: one write under the supplied id if the update response
\* holds a call named after the memory schema with valid arguments; no
\* write and no error if it holds no call of that name; never another id,
\* never more than one write.
C18_AsStated ==
    /\ Len(put_log) <= 1
    /\ \A w \in 1..Len(put_log) : put_log[w].id = args.memory_id
    /\ UpdateAnswered =>
          /\ (\E i \in 1..Len(mem_response.tool_calls) :
                 /\ NamesMemorySchema(mem_response.tool_calls[i])
                 /\ mem_response.tool_calls[i].input \in ValidInputs)
             => Len(put_log) = 1
          /\ (\A i \in 1..Len(mem_response.tool_calls) :
                 ~NamesMemorySchema(mem_response.tool_calls[i]))
             => put_log = <<>> /\ pc = "returned" /\ error.type = None

\* C18, amended: one write under the supplied id, of the validated
\* arguments, if the FIRST call named after the memory schema in the update
\* response has valid arguments; no write if that first call's arguments
\* are invalid (a valid call of that name after it is not looked at); no
\* write and no error if the response holds no call of that name; never
\* another id, never more than one write.
C18_WriteOnce ==
    /\ Len(put_log) <= 1
    /\ \A w \in 1..Len(put_log) : put_log[w].id = args.memory_id
    /\ ~UpdateAnswered => put_log = <<>>
    /\ UpdateAnswered =>
          /\ \A i \in 1..Len(mem_response.tool_calls) :
                (/\ NamesMemorySchema(mem_response.tool_calls[i])
                 /\ \A j \in 1..(i - 1) : ~NamesMemorySchema(mem_response.tool_calls[j]))
                => IF mem_response.tool_calls[i].input \in ValidInputs
                   THEN /\ put_log = <<[id |-> args.memory_id,
                                        data |-> mem_response.tool_calls[i].input]>>
                        /\ store[args.memory_id] = mem_response.tool_calls[i].input
                        /\ pc = "returned"
                   ELSE /\ put_log = <<>>
                        /\ store[args.memory_id] = current_memory
          /\ (\A i \in 1..Len(mem_response.tool_calls) :
                 ~NamesMemorySchema(mem_response.tool_calls[i]))
             => /\ put_log = <<>>
                /\ store[args.memory_id] = current_memory
                /\ pc = "returned"
                /\ error.type = None

\* the record of the first matching call replaced the stored one
C18_Witness ==
    /\ pc = "returned"
    /\ Len(mem_response.tool_calls) = 2
    /\ ~NamesMemorySchema(mem_response.tool_calls[1])
    /\ NamesMemorySchema(mem_response.tool_calls[2])
    /\ current_memory = "alice"
    /\ store[args.memory_id] = "ok"
    /\ Len(put_log) = 1

\* ---- C19 ----
\* C19: with memory_update false, or without a memory id, run issues no
\* provider call beyond its main loop and never writes to the Memory: the
\* stored records are what they were when run began.
C19_NoUpdateNoWrite ==
    (args.memory_id = None \/ ~args.memory_update) =>
        /\ mem_call_count = 0
        /\ pc \notin {"mem_chat", "mem_retry"}
        /\ mem_response = NoResponse
        /\ call_args.tool_choice # "UserContext"
        /\ put_log = <<>>
        /\ \A i \in MemoryIds :
              IF i = args.memory_id /\ self._memory /\ pc # "init"
              THEN store[i] = current_memory
              ELSE args.memory_id = None => store[i] = None

C19_Witness ==
    /\ pc = "returned"
    /\ args.memory_id \in MemoryIds
    /\ ~args.memory_update
    /\ self._memory
    /\ store[args.memory_id] = "alice"
    /\ chat_call_count = 2
    /\ mem_call_count = 0

\* ---- C20 ----
\* C20: the usage of a run that performs the memory update is the sum of the
\* usage of all main-loop responses plus the usage of the update response.
C20_UsageIncludesUpdate ==
    (pc = "returned" /\ mem_call_count = 1) =>
        /\ total_input_tokens = SumInput(response_log, Len(response_log))
                                  + mem_response.usage.input_tokens
        /\ total_output_tokens = SumOutput(response_log, Len(response_log))
                                  + mem_response.usage.output_tokens

\* ---- C21 ----
\* C21: once the k-th main-loop response is taken in, the running usage
\* total is the component-wise sum of the usage of responses 1..k, on every
\* path the round then takes; the total never decreases; the total at exit
\* is the sum over all main-loop calls.
C21_UsageSum ==
    /\ [](/\ pc # "response" =>
                /\ total_input_tokens = SumInput(response_log, Len(response_log))
                /\ total_output_tokens = SumOutput(response_log, Len(response_log))
          /\ pc = "response" =>
                /\ total_input_tokens = SumInput(response_log, Len(response_log) - 1)
                /\ total_output_tokens = SumOutput(response_log, Len(response_log) - 1))
    /\ [][/\ total_input_tokens' >= total_input_tokens
          /\ total_output_tokens' >= total_output_tokens]_vars

\* two calls returning {10,5} and {20,15}
C21_Witness ==
    /\ pc = "returned"
    /\ Len(response_log) = 2
    /\ response_log[1].usage = [input_tokens |-> 10, output_tokens |-> 5]
    /\ response_log[2].usage = [input_tokens |-> 20, output_tokens |-> 15]
    /\ total_input_tokens = 30
    /\ total_output_tokens = 20

\* ---- C22 ----
PoolSize(n) == IF n < 10 THEN n ELSE 10

\* C22: the tool calls of a round run concurrently on a pool of
\* min(n, 10) workers: never more than min(n, 10) executions are in flight,
\* and while fewer are in flight and a registered tool of the round is still
\* waiting, its execution can begin.
C22_ConcurrentPool ==
    /\ Cardinality(in_flight) <= PoolSize(Len(response.tool_calls))
    /\ (/\ pc = "tools"
        /\ Len(response.tool_calls) >= 2
        /\ IsPlainRound(response)
        /\ in_flight # {}
        /\ Cardinality(in_flight) < PoolSize(Len(response.tool_calls))
        /\ \E i \in 1..Len(response.tool_calls) :
              /\ response.tool_calls[i].name \in RegisteredTools
              /\ ~InSeq(response.tool_calls[i].id, executed))
       => ENABLED ToolStart

\* ---- C23 ----
\* C23: provider calls are made one at a time, and the provider call of
\* round k+1 is issued only after every tool call requested in round k has
\* completed and its outcome has joined the conversation.
C23_Sequential ==
    /\ chat_call_count <= Len(response_log) + 1
    /\ mem_call_count >= 1 => Len(response_log) = chat_call_count
    /\ pc \in {"chat", "retry", "response", "mem_chat", "mem_retry"} => in_flight = {}
    /\ (mem_call_count = 0 /\ chat_call_count >= 1) =>
          Len(ToolResultMessages(call_args.messages)) = chat_call_count - 1
    /\ \A k \in 1..(chat_call_count - 1) :
          LET outcomes == ToolResultMessages(messages)[k].content.list
              requests == response_log[k].tool_calls
          IN /\ Len(outcomes) = Len(requests)
             /\ \A i \in 1..Len(requests) :
                   /\ ResultId(outcomes[i]) = requests[i].id
                   /\ requests[i].id \notin in_flight
                   /\ requests[i].name \in RegisteredTools => InSeq(requests[i].id, executed)

C23_Witness ==
    /\ pc = "response"
    /\ chat_call_count = 2
    /\ Len(response_log[1].tool_calls) = 2
    /\ Len(executed) = 2
    /\ in_flight = {}
    /\ Len(call_args.messages) = 3

\* ---- C24 ----
IsPrefix(a, b) == Len(a) <= Len(b) /\ \A i \in 1..Len(a) : a[i] = b[i]
IsToolUseBlock(b) == b.type = "tool_use"
\* the tool-call ids an assistant message carries, in order
ToolUseIds(m) ==
    IF "list" \in DOMAIN m.content
    THEN LET blocks == SelectSeq(m.content.list, IsToolUseBlock)
         IN [i \in 1..Len(blocks) |-> blocks[i].id]
    ELSE [i \in 1..Len(m.content.raw.tool_calls) |-> m.content.raw.tool_calls[i].id]
ResultIds(m) == [i \in 1..Len(m.content.list) |-> ResultId(m.content.list[i])]
EveryResultFollowsItsUse ==
    \A j \in 1..Len(messages) :
        IsToolResultMessage(messages[j]) =>
            /\ j > 1
            /\ messages[j - 1].role = "assistant"
            /\ ToolUseIds(messages[j - 1]) = ResultIds(messages[j])

\* C24: the conversation only grows, each main-loop provider call is handed
\* the conversation of the previous call extended at its end, and every
\* tool-result message comes right after an assistant tool-use message that
\* carries exactly the ids of its results.
C24_Conversation ==
    /\ []EveryResultFollowsItsUse
    /\ [][/\ IsPrefix(messages, messages')
          /\ chat_call_count' = chat_call_count + 1 =>
                /\ call_args'.messages = messages
                /\ IsPrefix(call_args.messages, call_args'.messages)]_vars

C24_Witness ==
    /\ pc = "response"
    /\ chat_call_count = 2
    /\ Len(call_args.messages) = 3
    /\ call_args.messages[2].role = "assistant"
    /\ IsToolResultMessage(call_args.messages[3])
    /\ Len(ResultIds(call_args.messages[3])) = 2

\* ---- C25 ----
IsTextMessage(m) == DOMAIN m.content = {"str"}
MemoryInstruction ==
    [role |-> "user", content |-> [str |-> "Please update the memory based on this conversation."]]
\* the final response of the main loop, as text
FinalResponseText == pending.value

\* C25 as stated: the messages of the memory-update call are the text
\* messages of the conversation in order, then the final assistant
\* response, then the memory instruction; no tool-use or tool-result message.
C25_AsStated ==
    mem_call_count = 1 =>
        /\ \A i \in 1..Len(call_args.messages) : IsTextMessage(call_args.messages[i])
        /\ call_args.messages =
              SelectSeq(messages, IsTextMessage)
              \o <<[role |-> "assistant", content |-> [str |-> FinalResponseText]]>>
              \o <<MemoryInstruction>>

\* C25, amended: the messages of the memory-update call are the text
\* messages of the conversation in order, then the final assistant response
\* when it is not empty (an empty one is left out), then the memory
\* instruction; no tool-use or tool-result message.
C25_CondensedMessages ==
    mem_call_count = 1 =>
        /\ \A i \in 1..Len(call_args.messages) : IsTextMessage(call_args.messages[i])
        /\ call_args.messages =
              SelectSeq(messages, IsTextMessage)
              \o (IF FinalResponseText = "" THEN <<>>
                  ELSE <<[role |-> "assistant", content |-> [str |-> FinalResponseText]]>>)
              \o <<MemoryInstruction>>

C25_Witness ==
    /\ mem_call_count = 1
    /\ Len(messages) = 3
    /\ Len(call_args.messages) = 3
    /\ call_args.messages[2] = [role |-> "assistant", content |-> [str |-> "txt"]]
    /\ call_args.messages[3] = MemoryInstruction

\* ---- C26 ----
\* C26: the system prompt of the main-loop provider calls is the rendered
\* template, prefixed by the delimited record when the Memory holds one
\* under the supplied id; with no record stored, or no id supplied, it is
\* exactly the rendered template.
C26_SystemPrompt ==
    (chat_call_count >= 1 /\ mem_call_count = 0) =>
        call_args.system =
            IF args.memory_id # None /\ store[args.memory_id] # None
            THEN <<"<memory>", store[args.memory_id], "</memory>", "template">>
            ELSE <<"template">>

C26_Witness ==
    /\ pc = "response"
    /\ chat_call_count = 2
    /\ args.memory_id \in MemoryIds
    /\ store[args.memory_id] = "alice"
    /\ call_args.system[2] = "alice"


(***************************************************************************)
(* Invocations of run observed side by side.                               *)
(*                                                                         *)
(* The same code as above, written over a record l of the locals of one    *)
(* invocation, so that several invocations can be held in one state:       *)
(*   SpecTwoRuns  two invocations interleaved on one Agent, one Memory;    *)
(*   SpecTwin     the same run fed the same provider answers in two        *)
(*                worlds, one where setup_tracing was called and one       *)
(*                where it was not; store[i] is the Memory of world i.     *)
(* A provider call is one step here: its answer is what provider.chat      *)
(* gives back once _retryable_chat is through.                             *)
(***************************************************************************)

\* ---- tracing.py ----
\* llm_span: the span is a recording one when _tracer is set, INVALID_SPAN
\* otherwise; has_tracer is `_tracer is not None`
llm_span(has_tracer) == [recording |-> has_tracer]
\* tracer.start_as_current_span(...) and the request attributes
span_start(span, events, provider_name) ==
    IF span.recording THEN Append(events, [name |-> "span.start", attr |-> <<provider_name>>])
    ELSE events
record_user_message(span, events, content) ==
    IF span.recording THEN Append(events, [name |-> "gen_ai.user.message", attr |-> <<content>>])
    ELSE events
record_assistant_message(span, events, content) ==
    IF span.recording THEN Append(events, [name |-> "gen_ai.assistant.message", attr |-> <<content>>])
    ELSE events
record_tool_call(span, events, name, input_data) ==
    IF span.recording THEN Append(events, [name |-> "gen_ai.tool.call", attr |-> <<name, input_data>>])
    ELSE events
record_tool_result(span, events, name, output_data) ==
    IF span.recording THEN Append(events, [name |-> "gen_ai.tool.result", attr |-> <<name, output_data>>])
    ELSE events
record_usage(span, events, input_tokens, output_tokens) ==
    IF span.recording THEN Append(events, [name |-> "gen_ai.usage", attr |-> <<input_tokens, output_tokens>>])
    ELSE events

\* ---- the locals of one invocation ----
NewInvocation(a, has_tracer) ==
    [pc |-> "init", args |-> a, tracer |-> has_tracer, span |-> [recording |-> FALSE],
     messages |-> <<>>, response |-> NoResponse, tool_choice |-> None,
     total_input_tokens |-> 0, total_output_tokens |-> 0, iteration |-> 0, idx |-> 0,
     tool_results_content |-> <<>>, current_memory |-> None, rendered_system |-> <<>>,
     main_result |-> NoResult, assistant_response |-> "", result |-> NoResult,
     error |-> NoError, events |-> <<>>,
     calls |-> <<>>,         \* the arguments of the provider calls made, in order
     responses |-> <<>>,     \* the responses the main loop was given, in order
     requested |-> 0,        \* tool-call requests received
     executed |-> <<>>,      \* ids of the tool calls executed, in order
     memory_ops |-> <<>>]    \* Memory.get / Memory.put calls, in order

\* (variant: the loop state is kept in one place for all invocations)
LocalsShared(invs, i) == invs[1]

\* the locals run works on are those of its own frame (lines 106, 126-138)
Locals(invs, i) == invs[i]

\* what provider.chat gives back: a response, or an error it raises
ChatOutcomes(resps) ==
    {[raised |-> FALSE, exc |-> NoError, response |-> r] : r \in resps}
    \cup {[raised |-> TRUE, exc |-> APIStatusError(400), response |-> NoResponse]}

\* (variant: the tool is only run when the span records)
RecordedExecutionSpanOnly(span, events, name, input) ==
    IF span.recording
    THEN LET run_ == ToolDefinition_execute(name, input)
             result_str == IF run_.raised THEN ExecErrorText(name, run_.value[1]) ELSE run_.value
         IN [result_str |-> result_str,
             events |-> record_tool_result(span, record_tool_call(span, events, name, input),
                                           name, result_str)]
    ELSE [result_str |-> "", events |-> events]

\* lines 187-193: the call is recorded, the tool is run, the result is recorded
RecordedExecution(span, events, name, input) ==
    LET ev1 == record_tool_call(span, events, name, input)
        run_ == ToolDefinition_execute(name, input)
        result_str == IF run_.raised THEN ExecErrorText(name, run_.value[1]) ELSE run_.value
    IN [result_str |-> result_str, events |-> record_tool_result(span, ev1, name, result_str)]

\* the return sites (lines 160-163, 177-180, 209-211)
inv_finish(l, value, assistant_text) ==
    IF l.args.memory_id # None /\ l.args.memory_update /\ self._memory
    THEN [l EXCEPT !.pc = "mem_chat", !.main_result = value, !.assistant_response = assistant_text]
    ELSE [l EXCEPT !.pc = "returned", !.main_result = value, !.result = value]

\* lines 105-138
inv_start(l, st) ==
    IF MemoryMisconfigured(l.args.memory_id, self._memory)
    THEN [l EXCEPT !.pc = "raised", !.error = ValueError]
    ELSE LET cm == IF l.args.memory_id # None THEN Memory_get(st, l.args.memory_id) ELSE None
             span == llm_span(l.tracer)
         IN [l EXCEPT
                !.pc = "chat",
                !.current_memory = cm,
                !.memory_ops = IF l.args.memory_id # None
                               THEN Append(@, <<"get", l.args.memory_id, cm>>) ELSE @,
                !.rendered_system = _render_system_prompt(cm),
                !.span = span,
                !.events = record_user_message(span,
                               span_start(span, l.events, self.provider_name), l.args.message),
                !.tool_choice = IF self._output_model # None THEN self._output_model ELSE None,
                !.messages = <<[role |-> "user", content |-> [str |-> l.args.message]]>>]

\* lines 140-148: one provider.chat of the main loop
inv_chat(l, outcome) ==
    LET call == [messages |-> l.messages,
                 tools |-> IF tool_schemas # <<>> THEN tool_schemas ELSE None,
                 tool_choice |-> IF tool_schemas # <<>> THEN l.tool_choice ELSE None,
                 system |-> l.rendered_system,
                 max_tokens |-> self._max_tokens,
                 temperature |-> self._temperature]
        l1 == [l EXCEPT !.calls = Append(@, call), !.iteration = @ + 1]
    IN IF outcome.raised
       THEN [l1 EXCEPT !.pc = "raised", !.error = outcome.exc]
       ELSE [l1 EXCEPT !.pc = "response",
                       !.response = outcome.response,
                       !.responses = Append(@, outcome.response),
                       !.requested = @ + Len(outcome.response.tool_calls)]

\* lines 150-170
inv_handle(l) ==
    LET l1 == [l EXCEPT
                 !.total_input_tokens = Accumulate(@, l.response.usage.input_tokens),
                 !.total_output_tokens = Accumulate(@, l.response.usage.output_tokens)]
    IN IF l.response.tool_calls = <<>>
       THEN LET ev1 == IF l.response.text # None
                       THEN record_assistant_message(l.span, l.events, l.response.text)
                       ELSE l.events
                ev2 == record_usage(l.span, ev1, l1.total_input_tokens, l1.total_output_tokens)
            IN inv_finish([l1 EXCEPT !.events = ev2],
                          TextResult(OrEmpty(l.response.text)), OrEmpty(l.response.text))
       ELSE [l1 EXCEPT
               !.messages = Append(@, [role |-> "assistant",
                                       content |-> _build_assistant_content(self.provider_name, l.response)]),
               !.tool_results_content = <<>>,
               !.idx = 1,
               !.pc = "tools"]

\* lines 172-197: one iteration of `for tc in response.tool_calls`
inv_tool(l) ==
    LET tc == l.response.tool_calls[l.idx] IN
    IF self._output_model # None /\ tc.name = self._output_model
    THEN LET l1 == [l EXCEPT !.events = record_usage(l.span, @, l.total_input_tokens,
                                                     l.total_output_tokens)]
         IN IF IsValid(tc.input)
            THEN inv_finish(l1, parse_structured_output(self._output_model, tc.input), tc.input)
            ELSE [l1 EXCEPT !.pc = "raised", !.error = ValidationError]
    ELSE IF ToolRegistry_get(tc.name) = None
    THEN [l EXCEPT
            !.tool_results_content = AppendResult(@,
                _build_tool_result(self.provider_name, tc.id, tc.name, UnknownToolText(tc.name))),
            !.idx = @ + 1]
    ELSE LET r == RecordedExecution(l.span, l.events, tc.name, tc.input)
         IN [l EXCEPT
               !.events = r.events,
               !.executed = Append(@, tc.id),
               !.tool_results_content = AppendResult(@,
                   _build_tool_result(self.provider_name, tc.id, tc.name, r.result_str)),
               !.idx = @ + 1]

\* lines 199-211
inv_end_round(l) ==
    LET l1 == [l EXCEPT
                 !.messages = Append(@, ToolResultsMessage(l.tool_results_content)),
                 !.tool_choice = NextToolChoice(@)]
    IN IF LoopContinues(l.iteration, self._max_iterations)
       THEN [l1 EXCEPT !.pc = "chat"]
       ELSE inv_finish([l1 EXCEPT !.events = record_usage(l.span, @, l.total_input_tokens,
                                                          l.total_output_tokens)],
                       TextResult(OrEmpty(l.response.text)), OrEmpty(l.response.text))

\* (variant: the record is read from the Memory again for the prompt)
inv_memory_promptReread(l, st) ==
    <<"memory_prompt",
      IF Memory_get(st, l.args.memory_id) # None THEN Memory_get(st, l.args.memory_id) ELSE "{}",
      MemorySchemaName>>

\* lines 259-269: the prompt embeds current_memory, the record run loaded at
\* its start and handed to _update_memory
inv_memory_prompt(l, st) ==
    <<"memory_prompt", IF l.current_memory # None THEN l.current_memory ELSE "{}",
      MemorySchemaName>>

\* _update_memory (lines 237-304) and the return of run; gives the locals
\* and the Memory's records afterwards
inv_update_memory(l, st, outcome) ==
    LET call == [messages |->
                    SelectSeq(l.messages, LAMBDA m : "str" \in DOMAIN m.content)
                    \o (IF l.assistant_response # ""
                        THEN <<[role |-> "assistant", content |-> [str |-> l.assistant_response]]>>
                        ELSE <<>>)
                    \o <<[role |-> "user",
                          content |-> [str |-> "Please update the memory based on this conversation."]]>>,
                 tools |-> <<MemorySchemaName>>,
                 tool_choice |-> MemorySchemaName,
                 system |-> inv_memory_prompt(l, st),
                 max_tokens |-> self._max_tokens,
                 temperature |-> "0"]
        l1 == [l EXCEPT !.calls = Append(@, call)]
        m == FirstMatch(outcome.response.tool_calls)
    IN IF outcome.raised
       THEN [l |-> [l1 EXCEPT !.pc = "raised", !.error = outcome.exc], store |-> st]
       ELSE IF m = 0
       THEN [l |-> [l1 EXCEPT !.pc = "returned", !.result = l.main_result], store |-> st]
       ELSE IF IsValid(outcome.response.tool_calls[m].input)
       THEN [l |-> [l1 EXCEPT !.pc = "returned", !.result = l.main_result,
                              !.memory_ops = Append(@, <<"put", l.args.memory_id,
                                                         outcome.response.tool_calls[m].input>>)],
             store |-> Memory_put(st, l.args.memory_id, outcome.response.tool_calls[m].input)]
       ELSE [l |-> [l1 EXCEPT !.pc = "raised", !.error = ValidationError], store |-> st]

\* the variables of the single run of Spec, which stay as they are here
loop_vars == <<args, pc, messages, response, tool_choice, total_input_tokens,
               total_output_tokens, iteration, idx, tool_results_content, current_memory,
               rendered_system, pending, assistant_response, result, error, attempt,
               last_exc, sleeps, observed, executed, chat_call_count, mem_call_count,
               put_log, call_args, requested, response_log, mem_response, in_flight>>

LoopIdle ==
    /\ args = [message |-> "hello", memory_id |-> None, memory_update |-> TRUE]
    /\ pc = "init" /\ messages = <<>> /\ response = NoResponse /\ tool_choice = None
    /\ total_input_tokens = 0 /\ total_output_tokens = 0 /\ iteration = 0 /\ idx = 0
    /\ tool_results_content = <<>> /\ current_memory = None /\ rendered_system = <<>>
    /\ pending = NoResult /\ assistant_response = "" /\ result = NoResult /\ error = NoError
    /\ attempt = 0 /\ last_exc = NoError /\ sleeps = <<>> /\ observed = NoError
    /\ executed = <<>> /\ chat_call_count = 0 /\ mem_call_count = 0 /\ put_log = <<>>
    /\ call_args = NoArgs /\ requested = 0 /\ response_log = <<>>
    /\ mem_response = NoResponse /\ in_flight = {}

\* Agent.__init__, the trace option included
TracedAgents ==
    {[_max_iterations |-> n, _output_model |-> o, _memory |-> m, provider_name |-> "anthropic",
      _max_tokens |-> 4096, _temperature |-> None, _trace |-> t] :
        n \in 1..MaxIterations, o \in {None, OutputTypeName}, m \in BOOLEAN, t \in BOOLEAN}

\* ---- two invocations interleaved on one Agent ----
InvocationIds == {1, 2}
\* the provider's answers to invocation i carry ids of their own (the
\* provider names every tool call afresh)
TagIds(resp, i) ==
    [resp EXCEPT !.tool_calls =
        [k \in 1..Len(resp.tool_calls) |->
            [resp.tool_calls[k] EXCEPT !.id = <<i>> \o resp.tool_calls[k].id]]]

\* the provider's answers to the interleaved runs: requests with well-formed input
InterleavedResponses(round, left) ==
    {r \in Responses(None, round, left) :
        \A k \in 1..Len(r.tool_calls) : r.tool_calls[k].input \in ValidInputs}

InitTwoRuns ==
    /\ LoopIdle
    /\ MemoryIdle
    /\ ProviderIdle
    /\ self \in {a \in TracedAgents : /\ a._max_iterations = MaxIterations
                                      /\ a._output_model = None /\ a._memory /\ ~a._trace}
    /\ store \in [MemoryIds -> {None, "alice"}]
    /\ \E u \in BOOLEAN :
          invocations = [i \in InvocationIds |->
              NewInvocation([message |-> <<"message", i>>, memory_id |-> "u1",
                             memory_update |-> u], FALSE)]

TwoRunsStart(i) ==
    /\ invocations[i].pc = "init"
    /\ invocations' = [invocations EXCEPT ![i] = inv_start(Locals(invocations, i), store)]
    /\ UNCHANGED <<self, store, loop_vars, memory_vars, provider_vars>>

TwoRunsChat(i) ==
    /\ invocations[i].pc = "chat"
    /\ \E outcome \in ChatOutcomes(InterleavedResponses(invocations[i].iteration + 1,
                                             MaxInterleavedToolCalls - invocations[i].requested)) :
          invocations' = [invocations EXCEPT ![i] =
              inv_chat(Locals(invocations, i),
                       [outcome EXCEPT !.response = TagIds(outcome.response, i)])]
    /\ UNCHANGED <<self, store, loop_vars, memory_vars, provider_vars>>

TwoRunsHandle(i) ==
    /\ invocations[i].pc = "response"
    /\ invocations' = [invocations EXCEPT ![i] = inv_handle(Locals(invocations, i))]
    /\ UNCHANGED <<self, store, loop_vars, memory_vars, provider_vars>>

TwoRunsTool(i) ==
    /\ invocations[i].pc = "tools"
    /\ invocations[i].idx <= Len(invocations[i].response.tool_calls)
    /\ invocations' = [invocations EXCEPT ![i] = inv_tool(Locals(invocations, i))]
    /\ UNCHANGED <<self, store, loop_vars, memory_vars, provider_vars>>

TwoRunsEndRound(i) ==
    /\ invocations[i].pc = "tools"
    /\ invocations[i].idx > Len(invocations[i].response.tool_calls)
    /\ invocations' = [invocations EXCEPT ![i] = inv_end_round(Locals(invocations, i))]
    /\ UNCHANGED <<self, store, loop_vars, memory_vars, provider_vars>>

TwoRunsUpdateMemory(i) ==
    /\ invocations[i].pc = "mem_chat"
    /\ \E outcome \in ChatOutcomes({r \in MemResponses : Len(r.tool_calls) <= 1}) :
          LET r == inv_update_memory(Locals(invocations, i), store, outcome)
          IN /\ invocations' = [invocations EXCEPT ![i] = r.l]
             /\ store' = r.store
    /\ UNCHANGED <<self, loop_vars, memory_vars, provider_vars>>

NextTwoRuns ==
    \/ \E i \in InvocationIds : TwoRunsStart(i)
    \/ \E i \in InvocationIds : TwoRunsChat(i)
    \/ \E i \in InvocationIds : TwoRunsHandle(i)
    \/ \E i \in InvocationIds : TwoRunsTool(i)
    \/ \E i \in InvocationIds : TwoRunsEndRound(i)
    \/ \E i \in InvocationIds : TwoRunsUpdateMemory(i)

SpecTwoRuns == InitTwoRuns /\ [][NextTwoRuns]_vars

\* ---- one run in two worlds: world 1 with a tracer set up, world 2 without ----
Worlds == {1, 2}
InitTwin ==
    /\ LoopIdle
    /\ MemoryIdle
    /\ ProviderIdle
    /\ self \in TracedAgents
    /\ \E a \in {r \in RunArgs : r.memory_id = None => r.memory_update} :
       \E st \in {x \in [MemoryIds -> {None, "alice"}] :
                     (~self._memory \/ a.memory_id = None) => \A i \in MemoryIds : x[i] = None} :
          /\ store = [w \in Worlds |-> st]
          /\ invocations = [w \in Worlds |-> NewInvocation(a, w = 1)]

SamePlace(place) == \A w \in Worlds : invocations[w].pc = place

TwinStart ==
    /\ SamePlace("init")
    /\ invocations' = [w \in Worlds |-> inv_start(invocations[w], store[w])]
    /\ UNCHANGED <<self, store, loop_vars, memory_vars, provider_vars>>

TwinChat ==
    /\ SamePlace("chat")
    /\ \E outcome \in ChatOutcomes(Responses(self._output_model, invocations[1].iteration + 1,
                                             MaxToolCalls - invocations[1].requested)) :
          invocations' = [w \in Worlds |-> inv_chat(invocations[w], outcome)]
    /\ UNCHANGED <<self, store, loop_vars, memory_vars, provider_vars>>

TwinHandle ==
    /\ SamePlace("response")
    /\ invocations' = [w \in Worlds |-> inv_handle(invocations[w])]
    /\ UNCHANGED <<self, store, loop_vars, memory_vars, provider_vars>>

TwinTool ==
    /\ SamePlace("tools")
    /\ \A w \in Worlds : invocations[w].idx <= Len(invocations[w].response.tool_calls)
    /\ invocations' = [w \in Worlds |-> inv_tool(invocations[w])]
    /\ UNCHANGED <<self, store, loop_vars, memory_vars, provider_vars>>

TwinEndRound ==
    /\ SamePlace("tools")
    /\ \A w \in Worlds : invocations[w].idx > Len(invocations[w].response.tool_calls)
    /\ invocations' = [w \in Worlds |-> inv_end_round(invocations[w])]
    /\ UNCHANGED <<self, store, loop_vars, memory_vars, provider_vars>>

TwinUpdateMemory ==
    /\ SamePlace("mem_chat")
    /\ \E outcome \in ChatOutcomes(MemResponses) :
          /\ invocations' = [w \in Worlds |->
                                inv_update_memory(invocations[w], store[w], outcome).l]
          /\ store' = [w \in Worlds |->
                          inv_update_memory(invocations[w], store[w], outcome).store]
    /\ UNCHANGED <<self, loop_vars, memory_vars, provider_vars>>

NextTwin ==
    \/ TwinStart
    \/ TwinChat
    \/ TwinHandle
    \/ TwinTool
    \/ TwinEndRound
    \/ TwinUpdateMemory

SpecTwin == InitTwin /\ [][NextTwin]_vars

\* ---- C27 ----
\* the provider calls of the main loop an invocation has made
MainLoopCalls(l) == SelectSeq(l.calls, LAMBDA c : c.tools # <<MemorySchemaName>>)
\* the responses whose usage the invocation has added up so far
Accounted(l) == IF l.pc = "response" THEN Len(l.responses) - 1 ELSE Len(l.responses)
RequestIds(resp) == [k \in 1..Len(resp.tool_calls) |-> resp.tool_calls[k].id]

\* C27: of two invocations interleaved on one Agent, each has a conversation
\* made of its own user message followed by, round by round, the tool-use
\* message of its own response and the tool-result message answering it;
\* its usage totals are the sums over its own responses and its iteration
\* counter is the number of its own main-loop provider calls.
C27_NoSharedLoopState ==
    \A i \in InvocationIds :
        LET l == invocations[i] IN
        /\ l.pc # "init" /\ ~(l.pc = "raised" /\ l.error = ValueError) =>
              /\ Len(l.messages) >= 1
              /\ l.messages[1] = [role |-> "user", content |-> [str |-> <<"message", i>>]]
        /\ \A j \in 2..Len(l.messages) :
              /\ j \div 2 <= Len(l.responses)
              /\ IF j % 2 = 0
                 THEN l.messages[j] =
                        [role |-> "assistant",
                         content |-> _build_assistant_content(self.provider_name,
                                                              l.responses[j \div 2])]
                 ELSE /\ IsToolResultMessage(l.messages[j])
                      /\ ResultIds(l.messages[j]) = RequestIds(l.responses[j \div 2])
        /\ \A k \in 1..Len(l.responses) :
              \A n \in 1..Len(l.responses[k].tool_calls) :
                  l.responses[k].tool_calls[n].id[1] = i
        /\ l.total_input_tokens = SumInput(l.responses, Accounted(l))
        /\ l.total_output_tokens = SumOutput(l.responses, Accounted(l))
        /\ l.iteration = Len(MainLoopCalls(l))
        /\ \A k \in 1..Len(MainLoopCalls(l)) :
              IsPrefix(MainLoopCalls(l)[k].messages, l.messages)

\* both invocations are in the middle of a tool round at once, with
\* different usage so far
C27_Witness ==
    /\ invocations[1].pc = "tools" /\ invocations[2].pc = "tools"
    /\ Len(invocations[1].messages) = 2 /\ Len(invocations[2].messages) = 2
    /\ invocations[1].total_input_tokens = 10
    /\ invocations[2].total_input_tokens = 20
    /\ invocations[1].executed # <<>>

\* ---- C28 ----
\* what a run does, as its collaborators and its caller see it
Behaviour(l) ==
    [calls |-> l.calls, executed |-> l.executed, memory_ops |-> l.memory_ops,
     pc |-> l.pc, result |-> l.result, error |-> l.error]

\* C28: a run with a tracing sink and a run without one, given the same
\* message, provider answers and tool results, make the same provider calls,
\* tool executions and memory operations, leave the same records in the
\* Memory and end with the same result or the same error.
C28_SinkHasNoEffect ==
    /\ Behaviour(invocations[1]) = Behaviour(invocations[2])
    /\ store[1] = store[2]

\* both runs have returned after a tool round and a memory write, one having
\* notified its sink and the other not
C28_Witness ==
    /\ invocations[1].pc = "returned" /\ invocations[2].pc = "returned"
    /\ invocations[1].events # <<>> /\ invocations[2].events = <<>>
    /\ invocations[1].executed # <<>>
    /\ Len(invocations[1].calls) = 3
    /\ \E k \in 1..Len(invocations[2].memory_ops) : invocations[2].memory_ops[k][1] = "put"

\* ---- C29 ----
\* the requests of a response the loop gets to: those before the first call
\* of the output schema
RECURSIVE Dispatched(_, _)
Dispatched(tool_calls, n) ==
    IF n > Len(tool_calls) \/ IsOutputCall(tool_calls[n]) THEN <<>>
    ELSE <<tool_calls[n]>> \o Dispatched(tool_calls, n + 1)
RECURSIVE DispatchedAll(_, _)
DispatchedAll(resps, k) ==
    IF k > Len(resps) THEN <<>>
    ELSE Dispatched(resps[k].tool_calls, 1) \o DispatchedAll(resps, k + 1)
RECURSIVE ToolNotifications(_, _)
ToolNotifications(reqs, n) ==
    IF n > Len(reqs) THEN <<>>
    ELSE <<[name |-> "gen_ai.tool.call", attr |-> <<reqs[n].name, reqs[n].input>>],
           [name |-> "gen_ai.tool.result", attr |-> <<reqs[n].name, OutcomeText(reqs[n])>>]>>
         \o ToolNotifications(reqs, n + 1)
WithoutAssistantText(events) ==
    SelectSeq(events, LAMBDA e : e.name # "gen_ai.assistant.message")

\* C29: with a sink attached, a run that returns has notified it of, in
\* this order: the start of the span, the user message, for every request
\* dispatched (one naming an unknown tool too) the tool call and then its
\* result, in the order of the requests, and the usage, last and once.
C29_NotificationOrder ==
    LET l == invocations[1] IN
    l.pc = "returned" =>
        WithoutAssistantText(l.events) =
            <<[name |-> "span.start", attr |-> <<self.provider_name>>],
              [name |-> "gen_ai.user.message", attr |-> <<l.args.message>>]>>
            \o ToolNotifications(DispatchedAll(l.responses, 1), 1)
            \o <<[name |-> "gen_ai.usage",
                  attr |-> <<l.total_input_tokens, l.total_output_tokens>>]>>

\* ---- C30 ----
\* C30: an Agent constructed with trace = False notifies no sink during run,
\* whether or not setup_tracing has been called.
C30_TraceOptionGoverns ==
    ~self._trace => \A w \in Worlds : invocations[w].events = <<>>


(***************************************************************************)
(* memory.py: Memory instances over one table.                             *)
(*                                                                         *)
(* SpecMemory has two Memory instances of different scope (agent_id,       *)
(* schema) on the same database; their callers put, get, list, delete and  *)
(* close in any order.  A row is [id, agent_id, schema_name, data]; the    *)
(* table keeps its rows in the order of created_at; id is the primary key. *)
(* The database is reachable and answers every statement.                  *)
(***************************************************************************)
MemoryInstances == {1, 2}
RowIds == {"u1", "u2"}
\* a model instance: the schema class it is an instance of and its content
Records(schema_name) == {[schema |-> schema_name, value |-> v] : v \in {"alice", "bob"}}
\* the pairs of scopes that differ in agent_id, in schema, or in both
ScopePairs ==
    {<<[_agent_id |-> "agent-a", _schema_name |-> "UserContext"],
       [_agent_id |-> "agent-b", _schema_name |-> "UserContext"]>>,
     <<[_agent_id |-> "agent-a", _schema_name |-> "UserContext"],
       [_agent_id |-> "agent-a", _schema_name |-> "Notes"]>>,
     <<[_agent_id |-> "agent-a", _schema_name |-> "UserContext"],
       [_agent_id |-> "agent-b", _schema_name |-> "Notes"]>>}

\* self._conn = None: there is no connection
NoConnection == [open |-> FALSE, created |-> 0, queried |-> FALSE]

\* Memory.__init__ (lines 50-56); connections counts the psycopg.connect calls
NewMemory(scope) ==
    [_agent_id |-> scope._agent_id, _schema_name |-> scope._schema_name,
     _conn |-> NoConnection, _initialized |-> FALSE, connections |-> 0]
\* psycopg.connect: a connection on which nothing has run yet
NewConnection == [open |-> TRUE, created |-> 0, queried |-> FALSE]

\* (variant: the table is created on every use of the connection)
_get_connAlwaysCreate(mem) ==
    LET conn == IF mem._conn = NoConnection THEN NewConnection ELSE mem._conn
    IN [mem EXCEPT !._conn = [conn EXCEPT !.created = @ + 1],
                   !._initialized = TRUE,
                   !.connections = IF mem._conn = NoConnection THEN @ + 1 ELSE @]

\* _get_conn and _ensure_table (lines 58-73)
_get_conn(mem) ==
    LET conn == IF mem._conn = NoConnection THEN NewConnection ELSE mem._conn
        conn1 == IF ~mem._initialized THEN [conn EXCEPT !.created = @ + 1] ELSE conn
    IN [mem EXCEPT !._conn = conn1,
                   !._initialized = TRUE,
                   !.connections = IF mem._conn = NoConnection THEN @ + 1 ELSE @]

\* cur.execute of a statement other than the table creation
execute(mem) == [mem EXCEPT !._conn = [@ EXCEPT !.queried = TRUE]]

\* close (lines 139-144)
Memory_close(mem) ==
    IF mem._conn # NoConnection THEN [mem EXCEPT !._conn = NoConnection, !._initialized = FALSE] ELSE mem

\* self._schema.model_validate(row[0]): the data of another schema do not
\* validate (the two schemas have no field in common)
model_validate(schema_name, data) ==
    IF data.schema = schema_name THEN [raised |-> FALSE, value |-> data]
    ELSE [raised |-> TRUE, value |-> ValidationError]

InScope(row, mem) == row.agent_id = mem._agent_id /\ row.schema_name = mem._schema_name
HasId(table, id) == \E k \in 1..Len(table) : table[k].id = id

\* INSERT ... ON CONFLICT (id) DO UPDATE SET data = EXCLUDED.data (lines 88-97)
INSERT_ON_CONFLICT(table, mem, id, data) ==
    IF HasId(table, id)
    THEN [k \in 1..Len(table) |->
            IF table[k].id = id THEN [table[k] EXCEPT !.data = data] ELSE table[k]]
    ELSE Append(table, [id |-> id, agent_id |-> mem._agent_id,
                        schema_name |-> mem._schema_name, data |-> data])

\* SELECT data ... WHERE id = %s AND agent_id = %s AND schema_name = %s (lines 107-111)
SELECT_one(table, mem, id) ==
    SelectSeq(table, LAMBDA row : row.id = id /\ InScope(row, mem))
\* SELECT data ... WHERE agent_id = %s AND schema_name = %s ORDER BY created_at (lines 121-125)
SELECT_all(table, mem) == SelectSeq(table, LAMBDA row : InScope(row, mem))
\* DELETE ... WHERE id = %s AND agent_id = %s AND schema_name = %s (lines 133-136)
DELETE_one(table, mem, id) ==
    SelectSeq(table, LAMBDA row : ~(row.id = id /\ InScope(row, mem)))

\* what get(id) gives back over a table (lines 111-115): <<>> for None,
\* <<record>> for a record, or a ValidationError raised
get_result(table, mem, id) ==
    LET rows == SELECT_one(table, mem, id)
    IN IF rows = <<>> THEN [raised |-> FALSE, value |-> <<>>]
       ELSE LET v == model_validate(mem._schema_name, rows[1].data)
            IN IF v.raised THEN [raised |-> TRUE, value |-> <<>>]
               ELSE [raised |-> FALSE, value |-> <<v.value>>]
\* what list() gives back over a table (lines 125-127)
list_result(table, mem) ==
    LET rows == SELECT_all(table, mem)
    IN IF \E k \in 1..Len(rows) : model_validate(mem._schema_name, rows[k].data).raised
       THEN [raised |-> TRUE, value |-> <<>>]
       ELSE [raised |-> FALSE, value |-> [k \in 1..Len(rows) |-> rows[k].data]]

\* nothing of the single run or of the invocations is under observation
RunIdle ==
    /\ LoopIdle
    /\ self = [_max_iterations |-> 1, _output_model |-> None, _memory |-> FALSE,
               provider_name |-> "anthropic", _max_tokens |-> 4096, _temperature |-> None]
    /\ store = [i \in MemoryIds |-> None]
    /\ invocations = <<>>
run_vars == <<self, store, invocations, loop_vars, provider_vars>>

NoReturn == [op |-> "none", memory |-> 0, id |-> None, data |-> <<>>,
             raised |-> FALSE, value |-> <<>>]

InitMemory ==
    /\ RunIdle
    /\ ProviderIdle
    /\ memory_table = <<>>
    /\ \E scopes \in ScopePairs : memories = [m \in MemoryInstances |-> NewMemory(scopes[m])]
    /\ returned = NoReturn

\* an operation that needs a connection can have one
CanConnect(m) == memories[m]._conn # NoConnection \/ memories[m].connections < MaxConnections

\* put (lines 75-98)
MemoryPut(m) ==
    /\ CanConnect(m)
    /\ \E id \in RowIds, data \in Records(memories[m]._schema_name) :
          LET validated == model_validate(memories[m]._schema_name, data).value
              mem == execute(_get_conn(memories[m]))
          IN /\ memory_table' = INSERT_ON_CONFLICT(memory_table, mem, id, validated)
             /\ memories' = [memories EXCEPT ![m] = mem]
             /\ returned' = [op |-> "put", memory |-> m, id |-> id, data |-> <<validated>>,
                             raised |-> FALSE, value |-> <<>>]
    /\ UNCHANGED run_vars

\* get (lines 100-115)
MemoryGet(m) ==
    /\ CanConnect(m)
    /\ \E id \in RowIds :
          LET mem == execute(_get_conn(memories[m]))
              r == get_result(memory_table, mem, id)
          IN /\ memories' = [memories EXCEPT ![m] = mem]
             /\ returned' = [op |-> "get", memory |-> m, id |-> id, data |-> <<>>,
                             raised |-> r.raised, value |-> r.value]
    /\ UNCHANGED <<memory_table, run_vars>>

\* list (lines 117-127)
MemoryList(m) ==
    /\ CanConnect(m)
    /\ LET mem == execute(_get_conn(memories[m]))
           r == list_result(memory_table, mem)
       IN /\ memories' = [memories EXCEPT ![m] = mem]
          /\ returned' = [op |-> "list", memory |-> m, id |-> None, data |-> <<>>,
                          raised |-> r.raised, value |-> r.value]
    /\ UNCHANGED <<memory_table, run_vars>>

\* delete (lines 129-137)
MemoryDelete(m) ==
    /\ CanConnect(m)
    /\ \E id \in RowIds :
          LET mem == execute(_get_conn(memories[m]))
          IN /\ memory_table' = DELETE_one(memory_table, mem, id)
             /\ memories' = [memories EXCEPT ![m] = mem]
             /\ returned' = [op |-> "delete", memory |-> m, id |-> id, data |-> <<>>,
                             raised |-> FALSE, value |-> <<>>]
    /\ UNCHANGED run_vars

\* close (lines 139-144)
MemoryClose(m) ==
    /\ memories' = [memories EXCEPT ![m] = Memory_close(memories[m])]
    /\ returned' = [op |-> "close", memory |-> m, id |-> None, data |-> <<>>,
                    raised |-> FALSE, value |-> <<>>]
    /\ UNCHANGED <<memory_table, run_vars>>

NextMemory ==
    \/ \E m \in MemoryInstances : MemoryPut(m)
    \/ \E m \in MemoryInstances : MemoryGet(m)
    \/ \E m \in MemoryInstances : MemoryList(m)
    \/ \E m \in MemoryInstances : MemoryDelete(m)
    \/ \E m \in MemoryInstances : MemoryClose(m)

SpecMemory == InitMemory /\ [][NextMemory]_vars

\* ---- C31 ----
Writes == {"put", "delete"}
Queries == {"put", "get", "list", "delete"}
\* C31: a put or a delete through one Memory instance leaves what get(id),
\* for every id, and list() give back through the instance of the other
\* scope as they were.
C31_ScopedPerAgent ==
    [][\A o \in MemoryInstances :
          (returned'.op \in Writes /\ returned'.memory # o) =>
              /\ \A id \in RowIds :
                    get_result(memory_table', memories[o], id)
                        = get_result(memory_table, memories[o], id)
              /\ list_result(memory_table', memories[o]) = list_result(memory_table, memories[o])
      ]_vars

\* ---- C32 ----
\* C32: a get(id) that follows a put(id, d) through the same instance, with
\* nothing in between, gives back a record equal to d, whatever the other
\* instance has written before; one that follows a delete(id) gives back
\* nothing.
C32_RoundTrip ==
    [][(returned'.op = "get" /\ returned.op \in Writes
        /\ returned'.memory = returned.memory /\ returned'.id = returned.id) =>
            /\ ~returned'.raised
            /\ returned'.value = IF returned.op = "put" THEN returned.data ELSE <<>>
      ]_vars

\* ---- C39 ----
\* C39: an instance has no connection until its first store operation; on
\* every connection the table creation has run, once, by the time a query
\* has run; close leaves the instance unconnected and changes nothing when
\* it is unconnected already; an operation of an unconnected instance opens
\* a connection and runs the table creation on it.
C39_ConnectionLifecycle ==
    /\ [](\A m \in MemoryInstances :
            /\ memories[m].connections = 0 => memories[m]._conn = NoConnection
            /\ memories[m]._conn.created <= 1
            /\ memories[m]._conn.queried => memories[m]._conn.created = 1
            /\ memories[m]._initialized =>
                  memories[m]._conn # NoConnection /\ memories[m]._conn.created = 1)
    /\ [][\A m \in MemoryInstances :
            /\ (memories[m]._conn = NoConnection /\ memories'[m]._conn # NoConnection) =>
                  /\ returned'.memory = m /\ returned'.op \in Queries
                  /\ memories'[m].connections = memories[m].connections + 1
            /\ (returned'.memory = m /\ returned'.op \in Queries) =>
                  /\ memories'[m]._conn.created = 1 /\ memories'[m]._conn.queried
                  /\ memories[m]._conn # NoConnection =>
                        memories'[m].connections = memories[m].connections
            /\ (returned'.memory = m /\ returned'.op = "close") =>
                  /\ memories'[m]._conn = NoConnection /\ ~memories'[m]._initialized
                  /\ memories[m]._conn = NoConnection => memories'[m] = memories[m]
                  /\ memory_table' = memory_table
            /\ returned'.memory # m => memories'[m] = memories[m]
       ]_vars

\* an instance that was closed has reconnected and queried again
C39_Witness ==
    \E m \in MemoryInstances :
        /\ memories[m].connections = 2
        /\ memories[m]._conn.queried /\ memories[m]._conn.created = 1
        /\ returned.op = "get" /\ returned.memory = m


(***************************************************************************)
(* provider.py: the provider classes and the factory get_provider.         *)
(* SpecProvider: callers construct providers, through the factory or       *)
(* through the classes, with and without a model.                          *)
(***************************************************************************)
\* an argument left out of the call, so that the parameter's default applies
Omitted == "omitted"
ProviderNames == {"anthropic", "openai", "invalid", "Anthropic", "OPENAI", "gemini", ""}
ModelNames == {"claude-sonnet-4-20250514", "gpt-4o", "claude-haiku-4-5-20251001",
               "gpt-5.2", "my-model", ""}
\* `x or default`: None and the empty string are falsy
Truthy(x) == x # None /\ x # ""

NoProvider == [made |-> FALSE, raised |-> FALSE, error |-> NoError,
               provider_name |-> None, model_name |-> None]
\* AnthropicProvider.__init__, provider_name, model_name (lines 146-156)
AnthropicProvider(model) ==
    [made |-> TRUE, raised |-> FALSE, error |-> NoError, provider_name |-> "anthropic",
     model_name |-> IF model = Omitted THEN "claude-sonnet-4-20250514" ELSE model]
\* OpenAIProvider.__init__, provider_name, model_name (lines 203-213)
OpenAIProvider(model) ==
    [made |-> TRUE, raised |-> FALSE, error |-> NoError, provider_name |-> "openai",
     model_name |-> IF model = Omitted THEN "gpt-4o" ELSE model]

\* get_provider (lines 269-281)
get_provider(provider_arg, model_arg) ==
    LET provider == IF provider_arg = Omitted THEN "anthropic" ELSE provider_arg
        model == IF model_arg = Omitted THEN None ELSE model_arg
    IN IF provider = "anthropic"
       THEN AnthropicProvider(IF Truthy(model) THEN model ELSE "claude-haiku-4-5-20251001")
       ELSE IF provider = "openai"
       THEN OpenAIProvider(IF Truthy(model) THEN model ELSE "gpt-5.2")
       ELSE [NoProvider EXCEPT !.raised = TRUE, !.error = ValueError]

ProviderRequests ==
    {[fn |-> "get_provider", provider |-> p, model |-> m] :
        p \in ProviderNames \cup {Omitted}, m \in ModelNames \cup {None, Omitted}}
    \cup {[fn |-> f, provider |-> Omitted, model |-> m] :
        f \in {"AnthropicProvider", "OpenAIProvider"}, m \in ModelNames \cup {None, Omitted}}

InitProvider ==
    /\ RunIdle
    /\ MemoryIdle
    /\ provider_request \in ProviderRequests
    /\ provider_made = NoProvider

GetProvider ==
    /\ provider_request.fn = "get_provider"
    /\ provider_made = NoProvider
    /\ provider_made' = get_provider(provider_request.provider, provider_request.model)
    /\ UNCHANGED <<provider_request, self, store, invocations, loop_vars, memory_vars>>

ConstructAnthropic ==
    /\ provider_request.fn = "AnthropicProvider"
    /\ provider_made = NoProvider
    /\ provider_made' = AnthropicProvider(provider_request.model)
    /\ UNCHANGED <<provider_request, self, store, invocations, loop_vars, memory_vars>>

ConstructOpenAI ==
    /\ provider_request.fn = "OpenAIProvider"
    /\ provider_made = NoProvider
    /\ provider_made' = OpenAIProvider(provider_request.model)
    /\ UNCHANGED <<provider_request, self, store, invocations, loop_vars, memory_vars>>

\* the caller goes on to its next construction
NextRequest ==
    /\ provider_made # NoProvider
    /\ provider_request' \in ProviderRequests
    /\ provider_made' = NoProvider
    /\ UNCHANGED <<self, store, invocations, loop_vars, memory_vars>>

NextProvider ==
    \/ GetProvider
    \/ ConstructAnthropic
    \/ ConstructOpenAI
    \/ NextRequest

SpecProvider == InitProvider /\ [][NextProvider]_vars

\* ---- C33 ----
NoOverride == {None, Omitted}
\* the model a provider class takes when it is constructed without one
ClassDefault(name) ==
    IF name = "anthropic" THEN AnthropicProvider(Omitted).model_name
    ELSE OpenAIProvider(Omitted).model_name
\* C33: get_provider(name) without a model gives a provider of that name
\* whose model is the default of the provider class ("claude-sonnet-4-20250514"
\* for anthropic, "gpt-4o" for openai); an unknown name raises ValueError and
\* gives no provider.
C33_GetProviderDefaults ==
    (/\ provider_request.fn = "get_provider"
     /\ provider_request.model \in NoOverride
     /\ provider_made # NoProvider) =>
        LET name == IF provider_request.provider = Omitted THEN "anthropic"
                    ELSE provider_request.provider
        IN IF name \in {"anthropic", "openai"}
           THEN /\ provider_made.made /\ ~provider_made.raised
                /\ provider_made.provider_name = name
                /\ provider_made.model_name = ClassDefault(name)
                /\ ClassDefault("anthropic") = "claude-sonnet-4-20250514"
                /\ ClassDefault("openai") = "gpt-4o"
           ELSE /\ provider_made.raised /\ provider_made.error = ValueError
                /\ ~provider_made.made

\* ---- C34 ----
MemoryGets(l) == SelectSeq(l.memory_ops, LAMBDA op : op[1] = "get")
MemoryPuts(l) == SelectSeq(l.memory_ops, LAMBDA op : op[1] = "put")
MemoryCalls(l) == SelectSeq(l.calls, LAMBDA c : c.tools = <<MemorySchemaName>>)
Started(l) == l.pc # "init" /\ ~(l.pc = "raised" /\ l.error = ValueError)

\* C34: a run reads the Memory once, before its first provider call, and
\* writes it at most once, after its last main-loop provider call; the
\* memory-update prompt embeds the record that one get returned; a put
\* leaves its record as the stored one, so of two overlapping runs the record
\* stored at the end is the one put last, derived from the record as it was
\* when that run started.
C34_MemoryReadOnce ==
    /\ [](\A i \in InvocationIds :
            LET l == invocations[i] IN
            /\ ~Started(l) => l.memory_ops = <<>>
            /\ Started(l) => /\ Len(MemoryGets(l)) = 1
                             /\ l.memory_ops[1][1] = "get"
                             /\ l.memory_ops[1][2] = l.args.memory_id
            /\ Len(MemoryPuts(l)) <= 1
            /\ MemoryPuts(l) # <<>> => l.pc = "returned" /\ Len(MemoryCalls(l)) = 1
            /\ \A k \in 1..Len(MemoryCalls(l)) :
                  MemoryCalls(l)[k].system[2] =
                      (IF MemoryGets(l)[1][3] # None THEN MemoryGets(l)[1][3] ELSE "{}"))
    /\ [][\A i \in InvocationIds :
            LET l == invocations[i]
                l2 == invocations'[i]
            IN /\ Len(MemoryGets(l2)) > Len(MemoryGets(l)) =>
                    /\ l.calls = <<>>
                    /\ MemoryGets(l2)[1][3] = store[l.args.memory_id]
                    /\ store' = store
               /\ Len(MemoryPuts(l2)) > Len(MemoryPuts(l)) =>
                    /\ Len(MainLoopCalls(l2)) = Len(MainLoopCalls(l))
                    /\ l2.pc = "returned"
                    /\ store'[l.args.memory_id] = MemoryPuts(l2)[1][3]
               /\ Len(MainLoopCalls(l2)) > Len(MainLoopCalls(l)) => MemoryPuts(l) = <<>>
       ]_vars

\* two overlapping runs have both written; the prompt of the one that wrote
\* last was built from the empty Memory it had read at its start, though the
\* other's record was stored by then
C34_Witness ==
    /\ \A i \in InvocationIds :
          /\ invocations[i].pc = "returned"
          /\ Len(MemoryPuts(invocations[i])) = 1
          /\ MemoryGets(invocations[i])[1][3] = None
          /\ MemoryCalls(invocations[i])[1].system[2] = "{}"
    /\ store["u1"] = "ok"

\* ---- C35 ----
\* the provider call last made is one of the main loop
LastCallIsMainLoop == chat_call_count >= 1 /\ mem_call_count = 0

\* C35: the conversation passed to the k-th provider call of the main loop
\* has 2k-1 messages, begins with the user's message, alternates user and
\* assistant roles and ends with a user message: the original message for
\* k = 1, the tool-result message of round k-1 otherwise.
C35_ConversationShape ==
    LastCallIsMainLoop =>
        LET msgs == call_args.messages
            k == chat_call_count
        IN /\ Len(msgs) = 2 * k - 1
           /\ msgs[1] = [role |-> "user", content |-> [str |-> args.message]]
           /\ \A j \in 1..Len(msgs) :
                 msgs[j].role = IF j % 2 = 1 THEN "user" ELSE "assistant"
           /\ k > 1 =>
                 /\ IsToolResultMessage(msgs[Len(msgs)])
                 /\ ResultIds(msgs[Len(msgs)]) = RequestIds(response_log[k - 1])
                 /\ ToolUseIds(msgs[Len(msgs) - 1]) = RequestIds(response_log[k - 1])

C35_Witness ==
    /\ LastCallIsMainLoop
    /\ chat_call_count = 2
    /\ Len(call_args.messages) = 3
    /\ Len(response_log[1].tool_calls) = 2

\* ---- C36 ----
\* C36: a tool is executed only during the tool round of the most recent
\* provider response, for a request of that response that names a registered
\* tool and has not been executed before; none is executed before the first
\* response or once run has returned or raised.
C36_ExecutionsAreRequests ==
    /\ [](/\ chat_call_count = 0 => executed = <<>>
          /\ \A a, b \in 1..Len(executed) : executed[a] = executed[b] => a = b)
    /\ [][executed' # executed =>
            /\ pc = "tools" /\ pc' = "tools"
            /\ response_log # <<>> /\ response = response_log[Len(response_log)]
            /\ \E n \in 1..Len(response.tool_calls) :
                  /\ executed' = Append(executed, response.tool_calls[n].id)
                  /\ response.tool_calls[n].name \in RegisteredTools
                  /\ ~InSeq(response.tool_calls[n].id, executed)
       ]_vars

\* a run that was asked for an unknown tool, then for a registered one,
\* and executed the latter only
C36_Witness ==
    /\ pc = "returned"
    /\ Len(response_log) = 2
    /\ Len(response_log[2].tool_calls) = 1
    /\ executed = <<response_log[2].tool_calls[1].id>>
    /\ \E n \in 1..Len(response_log[1].tool_calls) :
          response_log[1].tool_calls[n].name = UnknownToolName

\* ---- C37 ----
\* C37: on the round that exhausts the budget the requests of the last
\* response are answered and the answers appended to the conversation; no
\* main-loop provider call follows, so no provider call is handed them: the
\* last main-loop call had the conversation without the last round, and the
\* memory-update call carries text messages only.
C37_LastRoundUndelivered ==
    BudgetExhausted =>
        LET N == self._max_iterations
            last == messages[Len(messages)]
        IN /\ MainLoopDone
           /\ IsToolResultMessage(last)
           /\ Answers(last.content.list, response_log[N].tool_calls)
           /\ \A n \in 1..Len(response_log[N].tool_calls) :
                 response_log[N].tool_calls[n].name \in RegisteredTools =>
                     InSeq(response_log[N].tool_calls[n].id, executed)
           /\ chat_call_count = N
           /\ mem_call_count = 0 =>
                 /\ IsPrefix(call_args.messages, messages)
                 /\ Len(call_args.messages) = Len(messages) - 2
           /\ mem_call_count >= 1 =>
                 \A j \in 1..Len(call_args.messages) : ~IsToolResultMessage(call_args.messages[j])

C37_Witness ==
    /\ BudgetExhausted
    /\ pc = "returned"
    /\ self._max_iterations = 2
    /\ mem_call_count = 1
    /\ Len(executed) = 2
    /\ InSeq(response_log[2].tool_calls[1].id, executed)

\* ---- C38 ----
\* C38: every main-loop provider call of a run is given the same system
\* prompt, tool schema list, max tokens and temperature: the prompt rendered
\* from the record loaded before the first call, the Agent's schema list and
\* the Agent's sampling parameters; the prompt and the record do not change
\* once the run has started.
C38_CallFrame ==
    /\ [](LastCallIsMainLoop =>
            /\ call_args.system = _render_system_prompt(current_memory)
            /\ call_args.tools = (IF tool_schemas # <<>> THEN tool_schemas ELSE None)
            /\ call_args.max_tokens = self._max_tokens
            /\ call_args.temperature = self._temperature)
    /\ [][/\ (chat_call_count' = chat_call_count + 1 /\ chat_call_count >= 1) =>
                /\ call_args'.system = call_args.system
                /\ call_args'.tools = call_args.tools
                /\ call_args'.max_tokens = call_args.max_tokens
                /\ call_args'.temperature = call_args.temperature
          /\ pc # "init" =>
                /\ rendered_system' = rendered_system
                /\ current_memory' = current_memory
                /\ self' = self
       ]_vars

\* a second main-loop call, with the forced choice of the first call gone
\* and a record loaded from the Memory
C38_Witness ==
    /\ LastCallIsMainLoop
    /\ chat_call_count = 2
    /\ OutputConfigured
    /\ call_args.tool_choice = "auto"
    /\ current_memory # None
    /\ Len(call_args.messages) = 3

====
